---- MODULE Spec2Model ----
(***************************************************************************)
(* A model of pkg/engine/engine.go of aks-engine: the extension resolver   *)
(* (getLinkedTemplatesForExtensions and the fetches below it), the network *)
(* topology helpers, the parameter and secret encoder, the kubeconfig      *)
(* generator, the custom-script packager and the single-line escaper.  Go  *)
(* strings are TLA+ strings; strings.Replace, Contains and the other       *)
(* library calls are operators computed over their characters.             *)
(***************************************************************************)
EXTENDS Integers, Sequences, FiniteSets, TLC

VARIABLES
    properties,   \* the *api.Properties handed to getLinkedTemplatesForExtensions
    pc,           \* where the resolver stands: "start", "orch", "link", "done"
    pairIdx,      \* index, in loop order, of the opted-in (extension, pool) pair at hand
    result,       \* the local variable result of getLinkedTemplatesForExtensions
    ret,          \* the value getLinkedTemplatesForExtensions returned
    fragments,    \* history: the dta value appended for each resolved pair
    requests,     \* history: every http.Get issued, in order, with its response
    netIn,        \* the input of the network topology call at hand
    netOut,       \* what the network topology call returned
    m,            \* the paramsMap
    lastCall,     \* history: the last call made on the paramsMap
    kubeIn,       \* the arguments of GenerateKubeConfig
    kubeOut,      \* what GenerateKubeConfig returned
    scriptIn,     \* the asset that the packager or the single-line call names
    scriptOut     \* the last call made on that text, and what it returned

extVars == <<properties, pc, pairIdx, result, ret, fragments, requests>>
netVars == <<netIn, netOut>>
paramVars == <<m, lastCall>>
kubeVars == <<kubeIn, kubeOut>>
scriptVars == <<scriptIn, scriptOut>>
vars == <<properties, pc, pairIdx, result, ret, fragments, requests,
          netIn, netOut, m, lastCall, kubeIn, kubeOut, scriptIn, scriptOut>>

(***************************************************************************)
(* Bounds of the model.                                                    *)
(***************************************************************************)
MaxExtensions == 2
MaxPools == 2

(***************************************************************************)
(* Library calls on strings.                                               *)
(***************************************************************************)
HasPrefixAt(s, i, t) ==
    /\ i + Len(t) - 1 <= Len(s)
    /\ SubSeq(s, i, i + Len(t) - 1) = t

Contains(s, t) == \E i \in 1..(Len(s) - Len(t) + 1) : HasPrefixAt(s, i, t)

\* strings.Index from position i on: where t first occurs at or after i, or 0.
IndexFrom(s, i, t) ==
    LET hits == { j \in i..(Len(s) - Len(t) + 1) : HasPrefixAt(s, j, t) }
    IN  IF hits = {} THEN 0 ELSE CHOOSE j \in hits : \A k \in hits : j <= k

RECURSIVE ReplaceFrom(_, _, _, _)
ReplaceFrom(s, i, old, new) ==
    LET j == IndexFrom(s, i, old)
    IN  IF j = 0 THEN SubSeq(s, i, Len(s))
        ELSE SubSeq(s, i, j - 1) \o new \o ReplaceFrom(s, j + Len(old), old, new)

\* strings.Replace(s, old, new, -1) for a non-empty old: the non-overlapping
\* occurrences of old, left to right.
Replace(s, old, new) == ReplaceFrom(s, 1, old, new)

UpperLetters == "ABCDEFGHIJKLMNOPQRSTUVWXYZ"
LowerLetters == "abcdefghijklmnopqrstuvwxyz"

ToLowerChar(c) ==
    IF \E i \in 1..26 : SubSeq(UpperLetters, i, i) = c
    THEN LET i == CHOOSE j \in 1..26 : SubSeq(UpperLetters, j, j) = c
         IN  SubSeq(LowerLetters, i, i)
    ELSE c

\* strings.EqualFold on ASCII text: equality up to the case of the letters.
EqualFold(a, b) ==
    /\ Len(a) = Len(b)
    /\ \A i \in 1..Len(a) : ToLowerChar(SubSeq(a, i, i)) = ToLowerChar(SubSeq(b, i, i))

Digits == "0123456789"
IsDigit(c) == \E i \in 1..10 : SubSeq(Digits, i, i) = c

\* Whether strconv.Atoi(s) returns no error: an optional sign and then one or
\* more decimal digits (of a number that fits an int).
AtoiOk(s) ==
    LET body == IF Len(s) > 0 /\ SubSeq(s, 1, 1) \in {"+", "-"}
                THEN SubSeq(s, 2, Len(s)) ELSE s
    IN  /\ Len(body) > 0
        /\ \A i \in 1..Len(body) : IsDigit(SubSeq(body, i, i))

stringInSlice(a, list) == \E i \in 1..Len(list) : list[i] = a

(***************************************************************************)
(* The extension resolver.                                                 *)
(***************************************************************************)
getExtensionURL(rootURL, extensionName, version, fileName, query) ==
    LET url == rootURL \o "extensions" \o "/" \o extensionName \o "/" \o version
                 \o "/" \o fileName
    IN  IF query # "" THEN url \o "?" \o query ELSE url

RECURSIVE validateProfileOptedForExtension(_, _)
validateProfileOptedForExtension(extensionName, profileExtensions) ==
    IF profileExtensions = <<>> THEN <<FALSE, "">>
    ELSE IF extensionName = Head(profileExtensions).Name
         THEN <<TRUE, Head(profileExtensions).SingleOrAll>>
         ELSE validateProfileOptedForExtension(extensionName, Tail(profileExtensions))

\* api.AgentPoolProfile.IsAvailabilitySets
IsAvailabilitySets(agentPoolProfile) ==
    agentPoolProfile.AvailabilityProfile = "AvailabilitySet"

\* The token substitution of internalGetPoolLinkedTemplateText, applied to the
\* text dta that getLinkedTemplateTextForURL returned.
ReplaceLoopCount(dta, loopCount) ==
    IF AtoiOk(loopCount)
    THEN Replace(dta, "\"EXTENSION_LOOP_COUNT\"", loopCount)
    ELSE Replace(dta, "EXTENSION_LOOP_COUNT", loopCount)

TargetVMType(extTargetVMNamePrefix) ==
    IF Contains(extTargetVMNamePrefix, "master") THEN "master" ELSE "agent"

internalGetPoolLinkedTemplateText(extTargetVMNamePrefix, loopCount, loopOffset, extensionProfile, dta) ==
    LET d1 == Replace(dta, "EXTENSION_TARGET_VM_TYPE", TargetVMType(extTargetVMNamePrefix))
        extensionsParameterReference ==
            "[parameters('" \o extensionProfile.Name \o "Parameters')]"
        d2 == Replace(d1, "EXTENSION_PARAMETERS_REPLACE", extensionsParameterReference)
        d3 == Replace(d2, "EXTENSION_URL_REPLACE", extensionProfile.RootURL)
        d4 == Replace(d3, "EXTENSION_TARGET_VM_NAME_PREFIX", extTargetVMNamePrefix)
        d5 == ReplaceLoopCount(d4, loopCount)
    IN  Replace(d5, "EXTENSION_LOOP_OFFSET", loopOffset)

MasterLoopCount(singleOrAll) ==
    IF EqualFold(singleOrAll, "single") THEN "1"
    ELSE "[sub(variables('masterCount'), variables('masterOffset'))]"

getMasterLinkedTemplateText(extensionProfile, singleOrAll, dta) ==
    internalGetPoolLinkedTemplateText("variables('masterVMNamePrefix')",
        MasterLoopCount(singleOrAll), "variables('masterOffset')", extensionProfile, dta)

AgentPoolLoopCount(agentPoolProfile, singleOrAll) ==
    IF EqualFold(singleOrAll, "single") THEN "1"
    ELSE IF IsAvailabilitySets(agentPoolProfile)
         THEN "[sub(variables('" \o agentPoolProfile.Name \o "Count'), variables('"
                 \o agentPoolProfile.Name \o "Offset'))]"
         ELSE "[variables('" \o agentPoolProfile.Name \o "Count'))]"

AgentPoolLoopOffset(agentPoolProfile) ==
    IF IsAvailabilitySets(agentPoolProfile)
    THEN "variables('" \o agentPoolProfile.Name \o "Offset')"
    ELSE ""

getAgentPoolLinkedTemplateText(agentPoolProfile, extensionProfile, singleOrAll, dta) ==
    internalGetPoolLinkedTemplateText(
        "variables('" \o agentPoolProfile.Name \o "VMNamePrefix')",
        AgentPoolLoopCount(agentPoolProfile, singleOrAll),
        AgentPoolLoopOffset(agentPoolProfile), extensionProfile, dta)

\* The loops with the agent pools visited before the master.
RECURSIVE LoopOrderPoolsFirst(_, _, _)
LoopOrderPoolsFirst(e, nExtensions, nPools) ==
    IF e > nExtensions THEN <<>>
    ELSE [p \in 1..(nPools + 1) |-> <<e, IF p > nPools THEN 0 ELSE p>>]
           \o LoopOrderPoolsFirst(e + 1, nExtensions, nPools)

\* The loop order of getLinkedTemplatesForExtensions: for each extension profile,
\* the master (pool 0) and then the agent pools in declaration order.
RECURSIVE LoopOrder(_, _, _)
LoopOrder(e, nExtensions, nPools) ==
    IF e > nExtensions THEN <<>>
    ELSE [p \in 1..(nPools + 1) |-> <<e, p - 1>>] \o LoopOrder(e + 1, nExtensions, nPools)

ProfileExtensions(props, p) ==
    IF p = 0 THEN props.MasterProfile.Extensions
    ELSE props.AgentPoolProfiles[p].Extensions

OptedFor(props, pair) ==
    validateProfileOptedForExtension(props.ExtensionProfiles[pair[1]].Name,
                                     ProfileExtensions(props, pair[2]))

\* The (extension, pool) pairs for which the loops reach a fetch, in order.
OptedPairs(props) ==
    SelectSeq(LoopOrder(1, Len(props.ExtensionProfiles), Len(props.AgentPoolProfiles)),
              LAMBDA pair : OptedFor(props, pair)[1])

\* getExtensionResource returns the body and no error.
getExtensionResourceOk(res) ==
    /\ ~res.getErr
    /\ res.StatusCode = 200
    /\ ~res.readErr

\* orchestratorSupportsExtension without the membership test on the decoded list.
orchestratorSupportsExtensionAnyList(res, orchestrator) ==
    /\ getExtensionResourceOk(res)
    /\ res.body.decodes

orchestratorSupportsExtension(res, orchestrator) ==
    /\ getExtensionResourceOk(res)
    /\ res.body.decodes
    /\ stringInSlice(orchestrator, res.body.list)

\* A failing pair that returns what was accumulated so far.
FailureResultPartial(partial) == partial

\* What getLinkedTemplatesForExtensions returns when a pair fails.
FailureResult(partial) == ""

\* The fragment for one pair, from the template-link.json text dta.
PoolLinkedTemplateText(props, pair, dta) ==
    LET extensionProfile == props.ExtensionProfiles[pair[1]]
        singleOrAll == OptedFor(props, pair)[2]
    IN  IF pair[2] = 0
        THEN getMasterLinkedTemplateText(extensionProfile, singleOrAll, dta)
        ELSE getAgentPoolLinkedTemplateText(props.AgentPoolProfiles[pair[2]],
                                            extensionProfile, singleOrAll, dta)

(***************************************************************************)
(* The cluster specifications and the remote endpoints the model draws     *)
(* from.                                                                   *)
(***************************************************************************)
HelloWorld == [Name |-> "hello-world", Version |-> "v1",
               RootURL |-> "https://x.io/", URLQuery |-> ""]
WinRM == [Name |-> "winrm", Version |-> "v2",
          RootURL |-> "https://y.io/", URLQuery |-> "sig=1"]
Noop == [Name |-> "noop", Version |-> "v1",
         RootURL |-> "https://x.io/", URLQuery |-> ""]
ExtensionProfileChoices == {HelloWorld, WinRM, Noop}

\* template-link.json as each extension's endpoint serves it.
TemplateLinkJSON(extensionName) ==
    CASE extensionName = "hello-world" ->
           "{\"name\":\"[concat(EXTENSION_TARGET_VM_NAME_PREFIX,copyIndex(EXTENSION_LOOP_OFFSET),'-EXTENSION_TARGET_VM_TYPE')]\",\"copy\":{\"count\":\"EXTENSION_LOOP_COUNT\"},\"uri\":\"EXTENSION_URL_REPLACEextensions/hello-world/v1/template.json\",\"parameters\":\"EXTENSION_PARAMETERS_REPLACE\"}"
      [] extensionName = "winrm" ->
           "{\"name\":\"[concat(EXTENSION_TARGET_VM_NAME_PREFIX,'-',EXTENSION_LOOP_COUNT)]\",\"type\":\"EXTENSION_TARGET_VM_TYPE\"}"
      [] OTHER -> ""

AgentPool1 == [Name |-> "agentpool1", AvailabilityProfile |-> "AvailabilitySet",
               Extensions |-> <<[Name |-> "hello-world", SingleOrAll |-> "single"]>>]
Pool2 == [Name |-> "pool2", AvailabilityProfile |-> "VirtualMachineScaleSets",
          Extensions |-> <<[Name |-> "hello-world", SingleOrAll |-> "All"],
                           [Name |-> "winrm", SingleOrAll |-> ""]>>]
MasterPool == [Name |-> "masterpool", AvailabilityProfile |-> "AvailabilitySet",
               Extensions |-> <<[Name |-> "winrm", SingleOrAll |-> "Single"],
                                [Name |-> "noop", SingleOrAll |-> "all"],
                                [Name |-> "winrm", SingleOrAll |-> "all"]>>]
AgentPoolChoices == {AgentPool1, Pool2, MasterPool}

MasterExtensionChoices ==
    { <<>>,
      <<[Name |-> "hello-world", SingleOrAll |-> "single"],
        [Name |-> "winrm", SingleOrAll |-> "all"]>>,
      <<[Name |-> "hello-world", SingleOrAll |-> "all"],
        [Name |-> "noop", SingleOrAll |-> "single"]>> }

OrchestratorTypes == {"Kubernetes", "Swarm"}

\* The sequences of at most n distinct elements of S.
DistinctSeqs(S, n) ==
    UNION { { s \in [1..k -> S] : \A i, j \in 1..k : i # j => s[i] # s[j] } : k \in 0..n }

PropertiesChoices ==
    { [ExtensionProfiles |-> exts,
       MasterProfile |-> [Extensions |-> mexts],
       AgentPoolProfiles |-> pools,
       OrchestratorProfile |-> [OrchestratorType |-> o]] :
        exts \in DistinctSeqs(ExtensionProfileChoices, MaxExtensions),
        mexts \in MasterExtensionChoices,
        pools \in DistinctSeqs(AgentPoolChoices, MaxPools),
        o \in OrchestratorTypes }

\* What http.Get and the read of the body may give for a request.
FailedResponses(noBody) ==
    { [getErr |-> TRUE, StatusCode |-> 0, readErr |-> FALSE, body |-> noBody],
      [getErr |-> FALSE, StatusCode |-> 404, readErr |-> FALSE, body |-> noBody],
      [getErr |-> FALSE, StatusCode |-> 200, readErr |-> TRUE, body |-> noBody] }

Undecodable == [decodes |-> FALSE, list |-> <<>>]

\* supported-orchestrators.json, as json.Unmarshal decodes it into a []string.
SupportedOrchestratorsBodies ==
    { Undecodable,
      [decodes |-> TRUE, list |-> <<"Kubernetes">>],
      [decodes |-> TRUE, list |-> <<"DCOS", "Swarm">>] }

SupportedOrchestratorsResponses ==
    FailedResponses(Undecodable) \cup
    { [getErr |-> FALSE, StatusCode |-> 200, readErr |-> FALSE, body |-> b] :
        b \in SupportedOrchestratorsBodies }

TemplateLinkResponses(extensionName) ==
    FailedResponses("") \cup
    { [getErr |-> FALSE, StatusCode |-> 200, readErr |-> FALSE,
       body |-> TemplateLinkJSON(extensionName)] }

(***************************************************************************)
(* getLinkedTemplatesForExtensions, one action per blocking step.          *)
(***************************************************************************)
Idle == "idle"

InitExt ==
    /\ properties \in PropertiesChoices
    /\ pc = "start"
    /\ pairIdx = 0
    /\ result = ""
    /\ ret = ""
    /\ fragments = <<>>
    /\ requests = <<>>
    /\ netIn = Idle /\ netOut = Idle
    /\ m = Idle /\ lastCall = Idle
    /\ kubeIn = Idle /\ kubeOut = Idle
    /\ scriptIn = Idle /\ scriptOut = Idle

CurrentPair == OptedPairs(properties)[pairIdx]
CurrentExtension == properties.ExtensionProfiles[CurrentPair[1]]

Request(fileName, res) ==
    [pair |-> CurrentPair, file |-> fileName,
     url |-> getExtensionURL(CurrentExtension.RootURL, CurrentExtension.Name,
                             CurrentExtension.Version, fileName,
                             CurrentExtension.URLQuery),
     response |-> res]

\* The loops run on to the next opted-in pair, where result gets its separator
\* comma before the fetch, or to their end, where result is returned.
RunToNextFetch(text) ==
    IF pairIdx < Len(OptedPairs(properties))
    THEN /\ pairIdx' = pairIdx + 1
         /\ result' = text \o ","
         /\ pc' = "orch"
         /\ ret' = ret
    ELSE /\ pairIdx' = pairIdx
         /\ result' = text
         /\ pc' = "done"
         /\ ret' = text

\* A pair failed: the error is printed and the function returns.
Fail ==
    /\ pc' = "done"
    /\ ret' = FailureResult(result)
    /\ UNCHANGED <<pairIdx, result, fragments>>

Call ==
    /\ pc = "start"
    /\ RunToNextFetch(result)
    /\ UNCHANGED <<properties, fragments, requests, netVars, paramVars, kubeVars, scriptVars>>

FetchSupportedOrchestrators ==
    /\ pc = "orch"
    /\ \E res \in SupportedOrchestratorsResponses :
        /\ requests' = Append(requests, Request("supported-orchestrators.json", res))
        /\ IF orchestratorSupportsExtension(res, properties.OrchestratorProfile.OrchestratorType)
           THEN /\ pc' = "link"
                /\ UNCHANGED <<pairIdx, result, ret, fragments>>
           ELSE Fail
    /\ UNCHANGED <<properties, netVars, paramVars, kubeVars, scriptVars>>

FetchTemplateLink ==
    /\ pc = "link"
    /\ \E res \in TemplateLinkResponses(CurrentExtension.Name) :
        /\ requests' = Append(requests, Request("template-link.json", res))
        /\ IF getExtensionResourceOk(res)
           THEN LET dta == PoolLinkedTemplateText(properties, CurrentPair, res.body)
                IN  /\ fragments' = Append(fragments,
                                           [pair |-> CurrentPair, template |-> res.body,
                                            text |-> dta])
                    /\ RunToNextFetch(result \o dta)
           ELSE Fail
    /\ UNCHANGED <<properties, netVars, paramVars, kubeVars, scriptVars>>

NextExt == Call \/ FetchSupportedOrchestrators \/ FetchTemplateLink

SpecExt == InitExt /\ [][NextExt]_vars

(***************************************************************************)
(* The network topology generator.                                         *)
(***************************************************************************)
MaxNetPools == 3
MaxPorts == 3

\* An int as fmt's %d and strconv.Itoa write it.
RECURSIVE Itoa(_)
Itoa(n) ==
    IF n < 0 THEN "-" \o Itoa(0 - n)
    ELSE IF n < 10 THEN SubSeq(Digits, n + 1, n + 1)
         ELSE Itoa(n \div 10) \o SubSeq(Digits, (n % 10) + 1, (n % 10) + 1)

\* The loop of getVNETAddressPrefixes over the agent pools from index i on;
\* visitedSubnets is read and never written inside the loop.
RECURSIVE VNETAddressPrefixesLoop(_, _, _)
VNETAddressPrefixesLoop(profiles, i, visitedSubnets) ==
    IF i > Len(profiles) THEN ""
    ELSE (IF profiles[i].Subnet \notin visitedSubnets
          THEN ",\n            \"[variables('" \o profiles[i].Name \o "Subnet')]\""
          ELSE "")
         \o VNETAddressPrefixesLoop(profiles, i + 1, visitedSubnets)

getVNETAddressPrefixes(props) ==
    "\"[variables('masterSubnet')]\""
      \o VNETAddressPrefixesLoop(props.AgentPoolProfiles, 1, {props.MasterProfile.Subnet})

BaseLBPriority == 200

\* getSecurityRule with the priority taken from the port instead of its index.
getSecurityRulePriorityByPort(port, portIndex) ==
    "          {\n            \"name\": \"Allow_" \o Itoa(port) \o
      "\",\n            \"properties\": {\n              \"access\": \"Allow\",\n              \"description\": \"Allow traffic from the Internet to port " \o
      Itoa(port) \o
      "\",\n              \"destinationAddressPrefix\": \"*\",\n              \"destinationPortRange\": \"" \o
      Itoa(port) \o
      "\",\n              \"direction\": \"Inbound\",\n              \"priority\": " \o
      Itoa(BaseLBPriority + port) \o
      ",\n              \"protocol\": \"*\",\n              \"sourceAddressPrefix\": \"Internet\",\n              \"sourcePortRange\": \"*\"\n            }\n          }"

getSecurityRule(port, portIndex) ==
    "          {\n            \"name\": \"Allow_" \o Itoa(port) \o
      "\",\n            \"properties\": {\n              \"access\": \"Allow\",\n              \"description\": \"Allow traffic from the Internet to port " \o
      Itoa(port) \o
      "\",\n              \"destinationAddressPrefix\": \"*\",\n              \"destinationPortRange\": \"" \o
      Itoa(port) \o
      "\",\n              \"direction\": \"Inbound\",\n              \"priority\": " \o
      Itoa(BaseLBPriority + portIndex) \o
      ",\n              \"protocol\": \"*\",\n              \"sourceAddressPrefix\": \"Internet\",\n              \"sourcePortRange\": \"*\"\n            }\n          }"

RECURSIVE SecurityRulesLoop(_, _)
SecurityRulesLoop(ports, index) ==
    IF index >= Len(ports) THEN ""
    ELSE (IF index > 0 THEN ",\n" ELSE "")
         \o getSecurityRule(ports[index + 1], index)
         \o SecurityRulesLoop(ports, index + 1)

getSecurityRules(ports) == SecurityRulesLoop(ports, 0)

\* getKubernetesPodStartIndex without the one added to the node count.
getKubernetesPodStartIndexNoSkip(props) ==
    LET profiles == props.AgentPoolProfiles
        counted(i) == IF profiles[i].OSType # "Windows" THEN profiles[i].Count ELSE 0
        Sum[i \in 0..Len(profiles)] == IF i = 0 THEN 0 ELSE Sum[i - 1] + counted(i)
    IN  props.MasterProfile.Count + Sum[Len(profiles)]

RECURSIVE PodStartIndexLoop(_, _, _)
PodStartIndexLoop(profiles, i, nodeCount) ==
    IF i > Len(profiles) THEN nodeCount
    ELSE PodStartIndexLoop(profiles, i + 1,
                           IF profiles[i].OSType # "Windows"
                           THEN nodeCount + profiles[i].Count ELSE nodeCount)

getKubernetesPodStartIndex(props) ==
    PodStartIndexLoop(props.AgentPoolProfiles, 1, props.MasterProfile.Count) + 1

subnetString(cidrIndex) ==
    "{\n            \"name\": \"podCIDR" \o Itoa(cidrIndex) \o
      "\",\n            \"properties\": {\n              \"addressPrefix\": \"10.244." \o
      Itoa(cidrIndex) \o
      ".0/24\",\n              \"networkSecurityGroup\": {\n                \"id\": \"[variables('nsgID')]\"\n              },\n              \"routeTable\": {\n                \"id\": \"[variables('routeTableID')]\"\n              }\n            }\n          }"

\* The inner loop of getKubernetesSubnets: one fragment per VM of a pool.
RECURSIVE PoolSubnets(_, _, _)
PoolSubnets(i, count, cidrIndex) ==
    IF i >= count THEN ""
    ELSE ",\n" \o subnetString(cidrIndex) \o PoolSubnets(i + 1, count, cidrIndex + 1)

RECURSIVE KubernetesSubnetsLoop(_, _, _)
KubernetesSubnetsLoop(profiles, i, cidrIndex) ==
    IF i > Len(profiles) THEN ""
    ELSE IF profiles[i].OSType = "Windows"
         THEN PoolSubnets(0, profiles[i].Count, cidrIndex)
                \o KubernetesSubnetsLoop(profiles, i + 1,
                       cidrIndex + (IF profiles[i].Count > 0 THEN profiles[i].Count ELSE 0))
         ELSE KubernetesSubnetsLoop(profiles, i + 1, cidrIndex)

getKubernetesSubnets(props) ==
    KubernetesSubnetsLoop(props.AgentPoolProfiles, 1, getKubernetesPodStartIndex(props))

\* The agent pools the model draws from; each gets its name from its place.
NetPoolShapes ==
    { [Subnet |-> "10.240.0.0/16", OSType |-> "Linux", Count |-> 2],
      [Subnet |-> "10.1.0.0/16", OSType |-> "Windows", Count |-> 1],
      [Subnet |-> "10.1.0.0/16", OSType |-> "Linux", Count |-> 1],
      [Subnet |-> "10.2.0.0/16", OSType |-> "Windows", Count |-> 2],
      [Subnet |-> "10.2.0.0/16", OSType |-> "Linux", Count |-> 3],
      [Subnet |-> "10.240.0.0/16", OSType |-> "Windows", Count |-> 0] }

NetPoolNames == <<"agentpool1", "agentpool2", "winpool", "pool4">>

NetProperties ==
    { [MasterProfile |-> [Count |-> c, Subnet |-> "10.240.0.0/16"],
       AgentPoolProfiles |->
           [i \in 1..k |-> [Name |-> NetPoolNames[i], Subnet |-> shapes[i].Subnet,
                            OSType |-> shapes[i].OSType, Count |-> shapes[i].Count]]] :
        c \in {1, 3},
        k \in 0..MaxNetPools,
        shapes \in [1..MaxNetPools -> NetPoolShapes] }

PortChoices == {22, 443, 8080}

PortLists == UNION { [1..k -> PortChoices] : k \in 0..MaxPorts }

NoOutput == [fn |-> "none", value |-> ""]

DefaultNetProperties ==
    [MasterProfile |-> [Count |-> 1, Subnet |-> "10.240.0.0/16"],
     AgentPoolProfiles |-> <<>>]

InitNet ==
    /\ netIn \in { [properties |-> props, ports |-> <<>>] : props \in NetProperties }
               \cup { [properties |-> DefaultNetProperties, ports |-> ports] :
                        ports \in PortLists }
    /\ netOut = NoOutput
    /\ properties = Idle /\ pc = Idle /\ pairIdx = 0 /\ result = "" /\ ret = ""
    /\ fragments = <<>> /\ requests = <<>>
    /\ m = Idle /\ lastCall = Idle
    /\ kubeIn = Idle /\ kubeOut = Idle
    /\ scriptIn = Idle /\ scriptOut = Idle

CallGetVNETAddressPrefixes ==
    /\ netOut' = [fn |-> "getVNETAddressPrefixes",
                  value |-> getVNETAddressPrefixes(netIn.properties)]
    /\ UNCHANGED <<netIn, extVars, paramVars, kubeVars, scriptVars>>

CallGetSecurityRules ==
    /\ netOut' = [fn |-> "getSecurityRules", value |-> getSecurityRules(netIn.ports)]
    /\ UNCHANGED <<netIn, extVars, paramVars, kubeVars, scriptVars>>

CallGetKubernetesSubnets ==
    /\ netOut' = [fn |-> "getKubernetesSubnets",
                  value |-> getKubernetesSubnets(netIn.properties)]
    /\ UNCHANGED <<netIn, extVars, paramVars, kubeVars, scriptVars>>

NextNet == CallGetVNETAddressPrefixes \/ CallGetSecurityRules \/ CallGetKubernetesSubnets

SpecNet == InitNet /\ [][NextNet]_vars

(***************************************************************************)
(* The parameter and secret encoder.                                       *)
(***************************************************************************)
\* An interface{} value: a string, or a value of another type.
StringValue(str) == [type |-> "string", str |-> str, num |-> 0]
IntValue(n) == [type |-> "int", str |-> "", num |-> n]
BoolValue(b) == [type |-> "bool", str |-> "", num |-> IF b THEN 1 ELSE 0]

addValue(map, k, v) ==
    [x \in (DOMAIN map) \cup {k} |-> IF x = k THEN [value |-> v] ELSE map[x]]

\* addKeyvaultReference writing the reference into the entry the key already has.
addKeyvaultReferenceIntoEntry(map, k, vaultID, secretName, secretVersion) ==
    LET ref == [KeyVault |-> [ID |-> vaultID], SecretName |-> secretName,
                SecretVersion |-> secretVersion]
    IN  [x \in (DOMAIN map) \cup {k} |->
            IF x # k THEN map[x]
            ELSE IF k \in DOMAIN map /\ "value" \in DOMAIN map[k]
                 THEN [value |-> map[k].value, reference |-> ref]
                 ELSE [reference |-> ref]]

addKeyvaultReference(map, k, vaultID, secretName, secretVersion) ==
    [x \in (DOMAIN map) \cup {k} |->
        IF x = k
        THEN [reference |-> [KeyVault |-> [ID |-> vaultID], SecretName |-> secretName,
                             SecretVersion |-> secretVersion]]
        ELSE map[x]]

\* The regexp classes \s and \S, and the . of a pattern compiled without flags.
IsSpace(c) == c \in {" ", "\t", "\n", "\r", "\f"}
NonSpaces(str) == Len(str) > 0 /\ \A i \in 1..Len(str) : ~IsSpace(SubSeq(str, i, i))
NameChars(str) ==
    Len(str) > 0 /\ \A i \in 1..Len(str) :
        ~IsSpace(SubSeq(str, i, i)) /\ SubSeq(str, i, i) # "/"
AnyCharAt(str, i) == i >= 1 /\ i <= Len(str) /\ SubSeq(str, i, i) # "\n"

\* "/providers/Microsoft.KeyVault/vaults/" at position j, the . matching any
\* character but a newline.
ProvidersAt(str, j) ==
    /\ HasPrefixAt(str, j, "/providers/Microsoft")
    /\ AnyCharAt(str, j + Len("/providers/Microsoft"))
    /\ HasPrefixAt(str, j + Len("/providers/Microsoft") + 1, "KeyVault/vaults/")

ProvidersLen == Len("/providers/Microsoft") + 1 + Len("KeyVault/vaults/")

\* Where the name that starts at position from ends: at the next "/" or at the
\* end of the string.
NameEnd(str, from) ==
    LET slashes == { r \in from..Len(str) : SubSeq(str, r, r) = "/" }
    IN  IF slashes = {} THEN Len(str) + 1
        ELSE CHOOSE r \in slashes : \A x \in slashes : r <= x

\* /secrets/([^/\s]+)(/(\S+))?$ matches str from position q on.
SecretTailAt(str, q) ==
    /\ HasPrefixAt(str, q, "/secrets/")
    /\ LET r == NameEnd(str, q + Len("/secrets/"))
       IN  /\ NameChars(SubSeq(str, q + Len("/secrets/"), r - 1))
           /\ r = Len(str) + 1 \/ NonSpaces(SubSeq(str, r + 1, Len(str)))

\* keyvaultSecretPathRe matches str with \S+ of the subscription ending before
\* i, \S+ of the resource group before j and \S+ of the vault before q.
PathMatchAt(str, i, j, q) ==
    /\ HasPrefixAt(str, 1, "/subscriptions/")
    /\ HasPrefixAt(str, i, "/resourceGroups/")
    /\ NonSpaces(SubSeq(str, Len("/subscriptions/") + 1, i - 1))
    /\ ProvidersAt(str, j)
    /\ NonSpaces(SubSeq(str, i + Len("/resourceGroups/"), j - 1))
    /\ NonSpaces(SubSeq(str, j + ProvidersLen, q - 1))
    /\ SecretTailAt(str, q)

PathMatches(str) ==
    LET groups == { i \in 1..Len(str) : HasPrefixAt(str, i, "/resourceGroups/") }
        providers == { j \in 1..Len(str) : ProvidersAt(str, j) }
        secrets == { q \in 1..Len(str) : HasPrefixAt(str, q, "/secrets/") }
    IN  { t \in groups \X providers \X secrets : PathMatchAt(str, t[1], t[2], t[3]) }

\* The match a backtracking search finds first: each greedy \S+ as long as a
\* match allows, the earlier ones first.
Preferred(a, b) ==
    \/ a[1] > b[1]
    \/ a[1] = b[1] /\ a[2] > b[2]
    \/ a[1] = b[1] /\ a[2] = b[2] /\ a[3] >= b[3]

\* keyvaultSecretPathRe.FindStringSubmatch(str): the empty sequence for nil, or
\* the whole match and the four groups.
FindStringSubmatch(str) ==
    LET matches == PathMatches(str)
    IN  IF matches = {} THEN <<>>
        ELSE LET t == CHOOSE a \in matches : \A b \in matches : Preferred(a, b)
                 q == t[3]
                 r == NameEnd(str, q + Len("/secrets/"))
             IN  << str,
                    SubSeq(str, 1, q - 1),
                    SubSeq(str, q + Len("/secrets/"), r - 1),
                    SubSeq(str, r, Len(str)),
                    SubSeq(str, r + 1, Len(str)) >>

\* The bytes of ASCII text: the characters of codes 32 to 95 and 97 to 126.
PrintableLow ==
    " !\"#$%&'()*+,-./0123456789:;<=>?@ABCDEFGHIJKLMNOPQRSTUVWXYZ[\\]^_"
PrintableHigh == "abcdefghijklmnopqrstuvwxyz{|}~"

Ord(c) ==
    CASE c = "\t" -> 9
      [] c = "\n" -> 10
      [] c = "\f" -> 12
      [] c = "\r" -> 13
      [] \E i \in 1..Len(PrintableLow) : SubSeq(PrintableLow, i, i) = c ->
            31 + (CHOOSE i \in 1..Len(PrintableLow) : SubSeq(PrintableLow, i, i) = c)
      [] OTHER ->
            96 + (CHOOSE i \in 1..Len(PrintableHigh) : SubSeq(PrintableHigh, i, i) = c)

Base64Alphabet == "ABCDEFGHIJKLMNOPQRSTUVWXYZabcdefghijklmnopqrstuvwxyz0123456789+/"
Base64Char(n) == SubSeq(Base64Alphabet, n + 1, n + 1)

\* base64.StdEncoding.EncodeToString of the bytes of str from position i on.
RECURSIVE EncodeFrom(_, _)
EncodeFrom(str, i) ==
    LET left == Len(str) - i + 1
        b1 == Ord(SubSeq(str, i, i))
        b2 == Ord(SubSeq(str, i + 1, i + 1))
        b3 == Ord(SubSeq(str, i + 2, i + 2))
    IN  IF left <= 0 THEN ""
        ELSE IF left = 1
             THEN Base64Char(b1 \div 4) \o Base64Char((b1 % 4) * 16) \o "=="
        ELSE IF left = 2
             THEN Base64Char(b1 \div 4) \o Base64Char((b1 % 4) * 16 + b2 \div 16)
                    \o Base64Char((b2 % 16) * 4) \o "="
        ELSE Base64Char(b1 \div 4) \o Base64Char((b1 % 4) * 16 + b2 \div 16)
               \o Base64Char((b2 % 16) * 4 + b3 \div 64) \o Base64Char(b3 % 64)
               \o EncodeFrom(str, i + 3)

EncodeToString(str) == EncodeFrom(str, 1)

addSecret(map, k, v, encode) ==
    IF v.type # "string" THEN addValue(map, k, v)
    ELSE LET parts == FindStringSubmatch(v.str)
         IN  IF parts = <<>> \/ Len(parts) # 5
             THEN IF encode
                  THEN addValue(map, k, StringValue(EncodeToString(v.str)))
                  ELSE addValue(map, k, StringValue(v.str))
             ELSE addKeyvaultReference(map, k, parts[2], parts[3], parts[5])

ParamKeys == {"clientPrivateKey", "servicePrincipalClientSecret"}

VaultPath == "/subscriptions/s1/resourceGroups/rg/providers/Microsoft.KeyVault/vaults/kv"

SecretStrings ==
    { "",
      "s3cret\n",
      VaultPath \o "/secrets/key/v1",
      VaultPath \o "/secrets/key",
      VaultPath \o "/secrets/key/",
      "/subscriptions/s1/resourceGroups/rg/providers/MicrosoftXKeyVault/vaults/kv/secrets/key",
      "/subscriptions/s 1/resourceGroups/rg/providers/Microsoft.KeyVault/vaults/kv/secrets/key/v1",
      VaultPath \o "/secrets/old/secrets/key" }

ParamValues ==
    { IntValue(3), BoolValue(TRUE) } \cup { StringValue(str) : str \in SecretStrings }

NoCall == [fn |-> "none", k |-> "", v |-> IntValue(0), encode |-> FALSE]

InitParams ==
    /\ m = <<>>
    /\ lastCall = NoCall
    /\ properties = Idle /\ pc = Idle /\ pairIdx = 0 /\ result = "" /\ ret = ""
    /\ fragments = <<>> /\ requests = <<>>
    /\ netIn = Idle /\ netOut = Idle
    /\ kubeIn = Idle /\ kubeOut = Idle
    /\ scriptIn = Idle /\ scriptOut = Idle

CallAddValue ==
    /\ \E k \in ParamKeys, v \in ParamValues :
        /\ m' = addValue(m, k, v)
        /\ lastCall' = [fn |-> "addValue", k |-> k, v |-> v, encode |-> FALSE]
    /\ UNCHANGED <<extVars, netVars, kubeVars, scriptVars>>

CallAddKeyvaultReference ==
    /\ \E k \in ParamKeys, secretVersion \in {"", "v2"} :
        /\ m' = addKeyvaultReference(m, k, VaultPath, "cert", secretVersion)
        /\ lastCall' = [fn |-> "addKeyvaultReference", k |-> k,
                        v |-> StringValue(secretVersion), encode |-> FALSE]
    /\ UNCHANGED <<extVars, netVars, kubeVars, scriptVars>>

CallAddSecret ==
    /\ \E k \in ParamKeys, v \in ParamValues, encode \in BOOLEAN :
        /\ m' = addSecret(m, k, v, encode)
        /\ lastCall' = [fn |-> "addSecret", k |-> k, v |-> v, encode |-> encode]
    /\ UNCHANGED <<extVars, netVars, kubeVars, scriptVars>>

NextParams == CallAddValue \/ CallAddKeyvaultReference \/ CallAddSecret

SpecParams == InitParams /\ [][NextParams]_vars

(***************************************************************************)
(* The KubeConfig generator.                                               *)
(***************************************************************************)
\* A nil pointer.
Nil == [nil |-> TRUE]

CaCertificateToken == "{{WrapAsVerbatim \"parameters('caCertificate')\"}}"
FQDNToken ==
    "{{WrapAsVerbatim \"reference(concat('Microsoft.Network/publicIPAddresses/', variables('masterPublicIPAddressName'))).dnsSettings.fqdn\"}}"
ResourceGroupToken == "{{WrapAsVariable \"resourceGroup\"}}"
AuthInfoToken == "{{authInfo}}"

\* The asset kubeConfigJSON: the authentication document with the four tokens
\* that GenerateKubeConfig replaces.
KubeConfigTemplate ==
    "{\"apiVersion\":\"v1\",\"clusters\":[{\"cluster\":{\"certificate-authority-data\":\""
    \o CaCertificateToken \o "\",\"server\":\"https://" \o FQDNToken
    \o "\"},\"name\":\"" \o ResourceGroupToken
    \o "\"}],\"contexts\":[{\"context\":{\"cluster\":\"" \o ResourceGroupToken
    \o "\",\"user\":\"" \o ResourceGroupToken \o "-admin\"},\"name\":\""
    \o ResourceGroupToken \o "\"}],\"current-context\":\"" \o ResourceGroupToken
    \o "\",\"kind\":\"Config\",\"users\":[{\"name\":\"" \o ResourceGroupToken
    \o "-admin\",\"user\":" \o AuthInfoToken \o "}]}"

\* Asset(kubeConfigJSON): the template, or an error when the asset is not there.
Asset(assetFound) ==
    IF assetFound THEN [b |-> KubeConfigTemplate, err |-> ""]
    ELSE [b |-> "", err |-> "Asset k8s/kubeconfig.json not found"]

\* helpers.IsTrueBoolPointer on a *bool that is nil, or points to true or false.
IsTrueBoolPointer(b) == b = "true"

\* helpers.GetCloudTargetEnv for the locations of the model.
GetCloudTargetEnv(location) ==
    IF location = "chinaeast" THEN "AzureChinaCloud" ELSE "AzurePublicCloud"

\* api.FormatAzureProdFQDNByLocation for the locations of the model.
FormatAzureProdFQDNByLocation(fqdnPrefix, location) ==
    fqdnPrefix \o "." \o location \o "."
        \o (IF GetCloudTargetEnv(location) = "AzureChinaCloud"
            THEN "cloudapp.chinacloudapi.cn" ELSE "cloudapp.azure.com")

DefaultInternalLbStaticIPOffset == 10

\* The private-cluster test that also takes a nil Enabled as enabled.
IsPrivateClusterNilAsEnabled(props) ==
    /\ props.OrchestratorProfile # Nil
    /\ props.OrchestratorProfile.KubernetesConfig # Nil
    /\ props.OrchestratorProfile.KubernetesConfig.PrivateCluster # Nil
    /\ props.OrchestratorProfile.KubernetesConfig.PrivateCluster.Enabled # "false"

IsPrivateCluster(props) ==
    /\ props.OrchestratorProfile # Nil
    /\ props.OrchestratorProfile.KubernetesConfig # Nil
    /\ props.OrchestratorProfile.KubernetesConfig.PrivateCluster # Nil
    /\ IsTrueBoolPointer(props.OrchestratorProfile.KubernetesConfig.PrivateCluster.Enabled)

\* The Go toolchains that build the program differ in net.ParseIP.  Before
\* Go 1.17 net.parseIPv4 reads an octet with leading zeros as a decimal number;
\* from Go 1.17 on it returns nil for an octet of more than one digit that
\* starts with "0".  The toolchains whose net.ParseIP goes through
\* netip.ParseAddr also return nil for an IPv6 group of more than four
\* hexadecimal digits, which the earlier parser reads like any other group.
GoBuilds ==
    { [leadingZeros |-> "accepted", longGroups |-> "accepted"],
      [leadingZeros |-> "rejected", longGroups |-> "accepted"],
      [leadingZeros |-> "rejected", longGroups |-> "rejected"] }

\* The bound of package net at which dtoi and xtoi give up: 0xFFFFFF.
Big == 256 * 256 * 256 - 1

\* The position after the decimal digits of s that start at position i.
DigitsEnd(s, i) ==
    LET stops == { e \in i..Len(s) : ~IsDigit(SubSeq(s, e, e)) }
    IN  IF stops = {} THEN Len(s) + 1
        ELSE CHOOSE e \in stops : \A x \in stops : e <= x

\* dtoi: the number that the digits stand for, or Big once it reaches Big.
RECURSIVE DecimalValue(_)
DecimalValue(digits) ==
    IF digits = "" THEN 0
    ELSE LET before == DecimalValue(SubSeq(digits, 1, Len(digits) - 1))
             d == CHOOSE x \in 0..9 : SubSeq(Digits, x + 1, x + 1)
                                        = SubSeq(digits, Len(digits), Len(digits))
         IN  IF before >= Big \/ 10 * before + d >= Big THEN Big
             ELSE 10 * before + d

\* net.parseIPv4: octet number k (0 to 3) of s is read from position i on; the
\* octets read, or the empty sequence for nil.  An octet has any number of
\* digits; its value is at most 255, and the build decides on leading zeros.
RECURSIVE ParseOctets(_, _, _, _)
ParseOctets(s, i, k, build) ==
    IF i > Len(s) THEN <<>>
    ELSE IF k > 0 /\ SubSeq(s, i, i) # "." THEN <<>>
    ELSE LET start == IF k > 0 THEN i + 1 ELSE i
             end == DigitsEnd(s, start)
             n == DecimalValue(SubSeq(s, start, end - 1))
         IN  IF end = start \/ n > 255 THEN <<>>
             ELSE IF /\ build.leadingZeros = "rejected"
                     /\ end - start > 1 /\ SubSeq(s, start, start) = "0" THEN <<>>
             ELSE IF k = 3 THEN (IF end = Len(s) + 1 THEN <<n>> ELSE <<>>)
             ELSE LET rest == ParseOctets(s, end, k + 1, build)
                  IN  IF rest = <<>> THEN <<>> ELSE <<n>> \o rest

\* The hexadecimal digits that xtoi reads: 0 to 9, a to f and A to F.
HexDigits == "0123456789abcdefABCDEF"

\* The position after the hexadecimal digits of s that start at position i.
HexEnd(s, i) ==
    LET stops == { e \in i..Len(s) :
                     \A d \in 1..Len(HexDigits) : SubSeq(HexDigits, d, d) # SubSeq(s, e, e) }
    IN  IF stops = {} THEN Len(s) + 1
        ELSE CHOOSE e \in stops : \A x \in stops : e <= x

\* xtoi: the number that the hexadecimal digits stand for, or Big once it
\* reaches Big.
RECURSIVE HexValue(_)
HexValue(digits) ==
    IF digits = "" THEN 0
    ELSE LET before == HexValue(SubSeq(digits, 1, Len(digits) - 1))
             last == SubSeq(digits, Len(digits), Len(digits))
             at == CHOOSE i \in 1..Len(HexDigits) : SubSeq(HexDigits, i, i) = last
             d == IF at <= 16 THEN at - 1 ELSE at - 7
         IN  IF before >= Big \/ 16 * before + d >= Big THEN Big
             ELSE 16 * before + d

\* The end of net.parseIPv6: all of s is read, and the bytes that the "::"
\* stands for are zeros put where it stood; it stands for at least one group.
FinishIPv6(s, pos, ip, ellipsis) ==
    IF pos <= Len(s) THEN <<>>
    ELSE IF Len(ip) < 16
    THEN IF ellipsis < 0 THEN <<>>
         ELSE SubSeq(ip, 1, ellipsis) \o [i \in 1..(16 - Len(ip)) |-> 0]
                \o SubSeq(ip, ellipsis + 1, Len(ip))
    ELSE IF ellipsis >= 0 THEN <<>>
    ELSE ip

\* The loop of net.parseIPv6: the groups of s from position pos on, after the
\* bytes ip, with ellipsis the number of bytes before the "::" (-1 when there
\* is none so far).  A group that a dot follows starts a trailing IPv4 address.
RECURSIVE ParseGroups(_, _, _, _, _)
ParseGroups(s, pos, ip, ellipsis, build) ==
    IF Len(ip) >= 16 THEN FinishIPv6(s, pos, ip, ellipsis)
    ELSE LET end == HexEnd(s, pos)
             n == HexValue(SubSeq(s, pos, end - 1))
         IN  IF end = pos \/ n > 65535 THEN <<>>
             ELSE IF build.longGroups = "rejected" /\ end - pos > 4 THEN <<>>
             ELSE IF end <= Len(s) /\ SubSeq(s, end, end) = "."
             THEN IF ellipsis < 0 /\ Len(ip) # 12 THEN <<>>
                  ELSE IF Len(ip) + 4 > 16 THEN <<>>
                  ELSE LET ip4 == ParseOctets(SubSeq(s, pos, Len(s)), 1, 0, build)
                       IN  IF ip4 = <<>> THEN <<>>
                           ELSE FinishIPv6(s, Len(s) + 1, ip \o ip4, ellipsis)
             ELSE LET filled == ip \o << n \div 256, n % 256 >>
                  IN  IF end > Len(s) THEN FinishIPv6(s, end, filled, ellipsis)
                      ELSE IF SubSeq(s, end, end) # ":" \/ end = Len(s) THEN <<>>
                      ELSE IF SubSeq(s, end + 1, end + 1) = ":"
                      THEN IF ellipsis >= 0 THEN <<>>
                           ELSE IF end + 2 > Len(s)
                           THEN FinishIPv6(s, end + 2, filled, Len(filled))
                           ELSE ParseGroups(s, end + 2, filled, Len(filled), build)
                      ELSE ParseGroups(s, end + 1, filled, ellipsis, build)

\* net.parseIPv6: the sixteen bytes, or the empty sequence for nil.
ParseIPv6(s, build) ==
    IF Len(s) >= 2 /\ SubSeq(s, 1, 2) = "::"
    THEN IF Len(s) = 2 THEN [i \in 1..16 |-> 0]
         ELSE ParseGroups(s, 3, <<>>, 0, build)
    ELSE ParseGroups(s, 1, <<>>, -1, build)

\* net.ParseIP(s).To4(): the four octets, or the empty sequence for nil.  The
\* first "." or ":" of s decides between net.parseIPv4 and net.parseIPv6; a
\* text with neither is nil.  To4 of a sixteen-byte address is the last four
\* bytes of an IPv4-mapped address (ten zero bytes, then 0xff 0xff), and nil
\* for any other.
ParseIPTo4(s, build) ==
    LET seps == { i \in 1..Len(s) : SubSeq(s, i, i) \in {".", ":"} }
        first == CHOOSE i \in seps : \A x \in seps : i <= x
        ip == ParseIPv6(s, build)
    IN  IF seps = {} THEN <<>>
        ELSE IF SubSeq(s, first, first) = "." THEN ParseOctets(s, 1, 0, build)
        ELSE IF /\ Len(ip) = 16
                /\ \A i \in 1..10 : ip[i] = 0
                /\ ip[11] = 255 /\ ip[12] = 255
        THEN SubSeq(ip, 13, 16)
        ELSE <<>>

\* net.IP{ip[0], ip[1], ip[2], ip[3] + byte(DefaultInternalLbStaticIPOffset)},
\* the sum being a byte.
InternalLbIP(firstMasterIP) ==
    << firstMasterIP[1], firstMasterIP[2], firstMasterIP[3],
       (firstMasterIP[4] + DefaultInternalLbStaticIPOffset) % 256 >>

\* net.IP.String() of a four-byte address.
IPString(ip) == Itoa(ip[1]) \o "." \o Itoa(ip[2]) \o "." \o Itoa(ip[3]) \o "." \o Itoa(ip[4])

\* The auth-info block with the tenant id as the profile gives it.
AuthInfoTenantAsGiven(props, location) ==
    IF props.AADProfile = Nil
    THEN "{\"client-certificate-data\":\""
           \o EncodeToString(props.CertificateProfile.KubeConfigCertificate)
           \o "\",\"client-key-data\":\""
           \o EncodeToString(props.CertificateProfile.KubeConfigPrivateKey)
           \o "\"}"
    ELSE "{\"auth-provider\":{\"name\":\"azure\",\"config\":{\"environment\":\""
           \o GetCloudTargetEnv(location)
           \o "\",\"tenant-id\":\"" \o props.AADProfile.TenantID
           \o "\",\"apiserver-id\":\"" \o props.AADProfile.ServerAppID
           \o "\",\"client-id\":\"" \o props.AADProfile.ClientAppID
           \o "\"}}}"

AuthInfo(props, location) ==
    IF props.AADProfile = Nil
    THEN "{\"client-certificate-data\":\""
           \o EncodeToString(props.CertificateProfile.KubeConfigCertificate)
           \o "\",\"client-key-data\":\""
           \o EncodeToString(props.CertificateProfile.KubeConfigPrivateKey)
           \o "\"}"
    ELSE LET tenantID == IF Len(props.AADProfile.TenantID) = 0 THEN "common"
                         ELSE props.AADProfile.TenantID
         IN  "{\"auth-provider\":{\"name\":\"azure\",\"config\":{\"environment\":\""
               \o GetCloudTargetEnv(location)
               \o "\",\"tenant-id\":\"" \o tenantID
               \o "\",\"apiserver-id\":\"" \o props.AADProfile.ServerAppID
               \o "\",\"client-id\":\"" \o props.AADProfile.ClientAppID
               \o "\"}}}"

\* A failure that returns the template read so far along with the error.
KubeConfigErrorWithDocument(err) == [kubeconfig |-> KubeConfigTemplate, err |-> err]

KubeConfigError(err) == [kubeconfig |-> "", err |-> err]

\* The document after the API-server address, the resource group and the
\* auth-info block are substituted.
FinishKubeConfig(kubeconfig, server, props, location) ==
    LET withServer == Replace(kubeconfig, FQDNToken, server)
        withGroup == Replace(withServer, ResourceGroupToken, props.MasterProfile.DNSPrefix)
    IN  [kubeconfig |-> Replace(withGroup, AuthInfoToken, AuthInfo(props, location)),
         err |-> ""]

GenerateKubeConfig(props, location, assetFound, build) ==
    IF props = Nil THEN KubeConfigError("Properties nil in GenerateKubeConfig")
    ELSE IF props.CertificateProfile = Nil
    THEN KubeConfigError("CertificateProfile property may not be nil in GenerateKubeConfig")
    ELSE IF Asset(assetFound).err # ""
    THEN KubeConfigError("error reading kube config template file k8s/kubeconfig.json: "
                           \o Asset(assetFound).err)
    ELSE LET kubeconfig == Replace(Asset(assetFound).b, CaCertificateToken,
                                   EncodeToString(props.CertificateProfile.CaCertificate))
             staticIP == props.MasterProfile.FirstConsecutiveStaticIP
             firstMasterIP == ParseIPTo4(staticIP, build)
         IN  IF IsPrivateCluster(props)
             THEN IF props.MasterProfile.Count > 1
                  THEN IF firstMasterIP = <<>>
                       THEN KubeConfigError("MasterProfile.FirstConsecutiveStaticIP '"
                                \o staticIP \o "' is an invalid IP address")
                       ELSE FinishKubeConfig(kubeconfig, IPString(InternalLbIP(firstMasterIP)),
                                             props, location)
                  ELSE FinishKubeConfig(kubeconfig, staticIP, props, location)
             ELSE FinishKubeConfig(kubeconfig,
                    FormatAzureProdFQDNByLocation(props.MasterProfile.DNSPrefix, location),
                    props, location)

CertificateProfileChoices ==
    { Nil, [CaCertificate |-> "ca-cert", KubeConfigCertificate |-> "crt",
            KubeConfigPrivateKey |-> "key\n"] }

PrivateClusterChoices == { Nil, [Enabled |-> "nil"], [Enabled |-> "false"], [Enabled |-> "true"] }

OrchestratorProfileChoices ==
    { Nil, [KubernetesConfig |-> Nil] }
        \cup { [KubernetesConfig |-> [PrivateCluster |-> pc0]] : pc0 \in PrivateClusterChoices }

MasterCounts == {1, 3, 5}

StaticIPChoices ==
    { "10.0.0.4", "10.240.255.5", "10.255.255.250", "10.0.0.256", "10.0.0", "", "fe80::5",
      "010.0.0.4", "0010.0.0.4", "10.0.0.004", "::ffff:10.0.0.4", "::ffff:a00:4",
      "0:0:0:0:0:ffff:10.0.0.4", "::ffff:00a00:4", "::ffff:10.0.0.04" }

MasterProfileChoices ==
    { [Count |-> c, FirstConsecutiveStaticIP |-> ip, DNSPrefix |-> "mycluster"] :
        c \in MasterCounts, ip \in StaticIPChoices }

AADProfileChoices ==
    { Nil,
      [TenantID |-> "", ServerAppID |-> "srv", ClientAppID |-> "cli"],
      [TenantID |-> "contoso", ServerAppID |-> "srv", ClientAppID |-> "cli"] }

KubePropertiesChoices ==
    {Nil} \cup
    { [CertificateProfile |-> c, OrchestratorProfile |-> o, MasterProfile |-> mp,
       AADProfile |-> a] :
        c \in CertificateProfileChoices, o \in OrchestratorProfileChoices,
        mp \in MasterProfileChoices, a \in AADProfileChoices }

Locations == {"westus2", "chinaeast"}

NotCalled == [called |-> FALSE, kubeconfig |-> "", err |-> ""]

InitKube ==
    /\ kubeIn \in { [properties |-> p, location |-> l, assetFound |-> a, build |-> b] :
                      p \in KubePropertiesChoices, l \in Locations, a \in BOOLEAN,
                      b \in GoBuilds }
    /\ kubeOut = NotCalled
    /\ m = Idle /\ lastCall = Idle
    /\ properties = Idle /\ pc = Idle /\ pairIdx = 0 /\ result = "" /\ ret = ""
    /\ fragments = <<>> /\ requests = <<>>
    /\ netIn = Idle /\ netOut = Idle
    /\ scriptIn = Idle /\ scriptOut = Idle

CallGenerateKubeConfig ==
    /\ ~kubeOut.called
    /\ LET out == GenerateKubeConfig(kubeIn.properties, kubeIn.location,
                                     kubeIn.assetFound, kubeIn.build)
       IN  kubeOut' = [called |-> TRUE, kubeconfig |-> out.kubeconfig, err |-> out.err]
    /\ UNCHANGED <<kubeIn, extVars, netVars, paramVars, scriptVars>>

NextKube == CallGenerateKubeConfig

SpecKube == InitKube /\ [][NextKube]_vars

(***************************************************************************)
(* The custom-script packager and the single-line escaper.                 *)
(***************************************************************************)
MaxTextLen == 3

\* The calls of a run are made at the times 1 to MaxClock - 1 of the wall clock.
MaxClock == 3

escapeSingleLine(escapedStr) ==
    LET s1 == Replace(escapedStr, "\\", "\\\\")
        s2 == Replace(s1, "\r\n", "\\n")
        s3 == Replace(s2, "\n", "\\n")
    IN  Replace(s3, "\"", "\\\"")

\* []byte(str)
Bytes(str) == [i \in 1..Len(str) |-> Ord(SubSeq(str, i, i))]

\* The low width bits of n, the lowest first, and the highest first.
BitsLowFirst(n, width) == [i \in 1..width |-> (n \div (2 ^ (i - 1))) % 2]
BitsHighFirst(n, width) == [i \in 1..width |-> (n \div (2 ^ (width - i))) % 2]

BitAt(bits, i) == IF i <= Len(bits) THEN bits[i] ELSE 0

\* A register of 32 bits that holds the bits given, zero above them.
Register(bits) == [i \in 1..32 |-> BitAt(bits, i)]

\* The bytes of a bit stream, the first bit being the lowest of the first byte
\* and the last byte filled up with zero bits.
PackBits(bits) ==
    [k \in 1..((Len(bits) + 7) \div 8) |->
        BitAt(bits, 8 * k - 7) + 2 * BitAt(bits, 8 * k - 6) + 4 * BitAt(bits, 8 * k - 5)
          + 8 * BitAt(bits, 8 * k - 4) + 16 * BitAt(bits, 8 * k - 3)
          + 32 * BitAt(bits, 8 * k - 2) + 64 * BitAt(bits, 8 * k - 1)
          + 128 * BitAt(bits, 8 * k)]

\* The code of a literal byte in the fixed Huffman code of deflate.
FixedLiteralCode(b) ==
    IF b < 144 THEN BitsHighFirst(48 + b, 8) ELSE BitsHighFirst(400 + (b - 144), 9)

EndOfBlockCode == <<0, 0, 0, 0, 0, 0, 0>>

RECURSIVE LiteralBits(_, _)
LiteralBits(bytes, i) ==
    IF i > Len(bytes) THEN <<>>
    ELSE FixedLiteralCode(bytes[i]) \o LiteralBits(bytes, i + 1)

\* What the flate writer of gzip.NewWriter (default compression) puts out on
\* Write(bytes) and Close() for the texts of the model, which are too short to
\* hold a match of four bytes: the bytes as literals in one block of the fixed
\* Huffman code that is not the last, when there are any, and then an empty
\* stored block that is the last.
Deflate(bytes) ==
    PackBits((IF Len(bytes) = 0 THEN <<>>
              ELSE <<0, 1, 0>> \o LiteralBits(bytes, 1) \o EndOfBlockCode)
             \o <<1, 0, 0>>)
      \o <<0, 0, 255, 255>>

\* crc32.ChecksumIEEE, on registers of 32 bits, the lowest first.
CrcPolynomial == BitsLowFirst(33568, 16) \o BitsLowFirst(60856, 16)
Xor(a, b) == [i \in 1..32 |-> (a[i] + b[i]) % 2]
CrcShift(c) ==
    LET shifted == [i \in 1..32 |-> IF i < 32 THEN c[i + 1] ELSE 0]
    IN  IF c[1] = 1 THEN Xor(shifted, CrcPolynomial) ELSE shifted

\* A register holds 32 bits at every step.
RECURSIVE CrcShifts(_, _)
CrcShifts(c, n) == IF n = 0 \/ Len(c) # 32 THEN c ELSE CrcShifts(CrcShift(c), n - 1)

RECURSIVE CrcUpdate(_, _, _)
CrcUpdate(c, bytes, i) ==
    IF i > Len(bytes) \/ Len(c) # 32 THEN c
    ELSE CrcUpdate(CrcShifts(Xor(c, Register(BitsLowFirst(bytes[i], 8))), 8), bytes, i + 1)

ChecksumIEEE(bytes) ==
    LET ones == [i \in 1..32 |-> 1]
    IN  Xor(CrcUpdate(ones, bytes, 1), ones)

\* The gzip header of a writer that stamps it with the time of the call.
GzipHeaderStamped == <<31, 139, 8, 0, scriptIn.now % 256, 0, 0, 0, 0, 255>>

\* The gzip header of a writer whose Header was left as it is: no name, no
\* comment, operating system unknown, and the four bytes of the modification
\* time zero, since Header.ModTime was not set; the clock is not read.
GzipHeader == <<31, 139, 8, 0, 0, 0, 0, 0, 0, 255>>

\* gzip.NewWriter(&gzipB), w.Write(bytes), w.Close(): what gzipB holds.
Gzip(bytes) ==
    GzipHeader \o Deflate(bytes) \o PackBits(ChecksumIEEE(bytes))
      \o PackBits(Register(BitsLowFirst(Len(bytes), 30)))

\* base64.StdEncoding.EncodeToString of the bytes from position i on.
RECURSIVE EncodeBytesFrom(_, _)
EncodeBytesFrom(bytes, i) ==
    LET left == Len(bytes) - i + 1
        b1 == bytes[i]
        b2 == bytes[i + 1]
        b3 == bytes[i + 2]
    IN  IF left <= 0 THEN ""
        ELSE IF left = 1
             THEN Base64Char(b1 \div 4) \o Base64Char((b1 % 4) * 16) \o "=="
        ELSE IF left = 2
             THEN Base64Char(b1 \div 4) \o Base64Char((b1 % 4) * 16 + b2 \div 16)
                    \o Base64Char((b2 % 16) * 4) \o "="
        ELSE Base64Char(b1 \div 4) \o Base64Char((b1 % 4) * 16 + b2 \div 16)
               \o Base64Char((b2 % 16) * 4 + b3 \div 64) \o Base64Char(b3 % 64)
               \o EncodeBytesFrom(bytes, i + 3)

getBase64CustomScriptFromStr(str) == EncodeBytesFrom(Gzip(Bytes(str)), 1)

\* getBase64CustomScript without the normalization of the line endings.
getBase64CustomScriptAsGiven(asset) ==
    IF asset.err # "" THEN [out |-> "", panic |-> "BUG: " \o asset.err]
    ELSE [out |-> getBase64CustomScriptFromStr(asset.b), panic |-> ""]

\* getBase64CustomScript(csFilename), asset being what Asset(csFilename)
\* returns: a panic and no return value when the asset is not there.
getBase64CustomScript(asset) ==
    IF asset.err # "" THEN [out |-> "", panic |-> "BUG: " \o asset.err]
    ELSE [out |-> getBase64CustomScriptFromStr(Replace(asset.b, "\r\n", "\n")), panic |-> ""]

\* getSingleLine(textFilename, cs, profile), asset being what
\* Asset(textFilename) returns and parseErr and executeErr what Parse and
\* ExecuteTemplate of text/template return for it ("" for nil).  The texts of
\* the model that parse and execute hold no template action, and text/template
\* copies such a text to the buffer as it is.
getSingleLine(textFilename, asset, parseErr, executeErr) ==
    IF asset.err # ""
    THEN [text |-> "", err |-> "yaml file " \o textFilename \o " does not exist"]
    ELSE IF parseErr # ""
    THEN [text |-> "", err |-> "error parsing file " \o textFilename \o ": " \o parseErr]
    ELSE IF executeErr # ""
    THEN [text |-> "",
          err |-> "error executing template for file " \o textFilename \o ": " \o executeErr]
    ELSE [text |-> asset.b, err |-> ""]

getSingleLineForTemplate(textFilename, asset, parseErr, executeErr) ==
    LET expandedTemplate == getSingleLine(textFilename, asset, parseErr, executeErr)
    IN  IF expandedTemplate.err # "" THEN [out |-> "", err |-> expandedTemplate.err]
        ELSE [out |-> escapeSingleLine(expandedTemplate.text), err |-> ""]

TextAlphabet == <<"a", "\\", "\r", "\n", "\"">>

\* The texts of at most n characters of the alphabet.
RECURSIVE Texts(_)
Texts(n) ==
    IF n = 0 THEN {""}
    ELSE Texts(n - 1) \cup
         { t \o TextAlphabet[c] : t \in Texts(n - 1), c \in 1..Len(TextAlphabet) }

\* The asset that a call names: one that is there and holds a text without
\* template actions, one whose action is not closed and does not parse, one
\* that includes a template that is not defined and does not execute, and one
\* that is not there.
InitScript ==
    /\ scriptIn \in
         { [now |-> 1, name |-> "k8s/kubernetesmastercustomdata.yml", asset |-> [b |-> t, err |-> ""],
            parseErr |-> "", executeErr |-> ""] : t \in Texts(MaxTextLen) }
         \cup
         { [now |-> 1, name |-> "k8s/kubernetesmastercustomdata.yml", asset |-> [b |-> "{{", err |-> ""],
            parseErr |-> "template: k8s/kubernetesmastercustomdata.yml:1: unclosed action",
            executeErr |-> ""],
           [now |-> 1, name |-> "k8s/kubernetesmastercustomdata.yml",
            asset |-> [b |-> "{{template \"x\"}}", err |-> ""],
            parseErr |-> "",
            executeErr |-> "template: k8s/kubernetesmastercustomdata.yml:1:11: executing \"k8s/kubernetesmastercustomdata.yml\" at <{{template \"x\"}}>: template \"x\" not defined"],
           [now |-> 1, name |-> "k8s/nothere.yml",
            asset |-> [b |-> "", err |-> "Asset k8s/nothere.yml not found"],
            parseErr |-> "", executeErr |-> ""] }
    /\ scriptOut = [fn |-> "none", out |-> "", err |-> "", panic |-> ""]
    /\ properties = Idle /\ pc = Idle /\ pairIdx = 0 /\ result = "" /\ ret = ""
    /\ fragments = <<>> /\ requests = <<>>
    /\ netIn = Idle /\ netOut = Idle
    /\ m = Idle /\ lastCall = Idle
    /\ kubeIn = Idle /\ kubeOut = Idle

\* A panic ends the program: no call follows one.  Each call is made at the
\* time scriptIn.now of the wall clock, which is later at the next call.
CallGetBase64CustomScript ==
    /\ scriptOut.panic = "" /\ scriptIn.now < MaxClock
    /\ LET r == getBase64CustomScript(scriptIn.asset)
       IN  scriptOut' = [fn |-> "getBase64CustomScript", out |-> r.out, err |-> "",
                         panic |-> r.panic]
    /\ scriptIn' = [scriptIn EXCEPT !.now = scriptIn.now + 1]
    /\ UNCHANGED <<extVars, netVars, paramVars, kubeVars>>

\* getBase64CustomScriptFromStr on the text of the asset as a string (the
\* empty string when the asset is not there).
CallGetBase64CustomScriptFromStr ==
    /\ scriptOut.panic = "" /\ scriptIn.now < MaxClock
    /\ scriptOut' = [fn |-> "getBase64CustomScriptFromStr",
                     out |-> getBase64CustomScriptFromStr(scriptIn.asset.b),
                     err |-> "", panic |-> ""]
    /\ scriptIn' = [scriptIn EXCEPT !.now = scriptIn.now + 1]
    /\ UNCHANGED <<extVars, netVars, paramVars, kubeVars>>

CallGetSingleLineForTemplate ==
    /\ scriptOut.panic = "" /\ scriptIn.now < MaxClock
    /\ LET r == getSingleLineForTemplate(scriptIn.name, scriptIn.asset,
                                         scriptIn.parseErr, scriptIn.executeErr)
       IN  scriptOut' = [fn |-> "getSingleLineForTemplate", out |-> r.out, err |-> r.err,
                         panic |-> ""]
    /\ scriptIn' = [scriptIn EXCEPT !.now = scriptIn.now + 1]
    /\ UNCHANGED <<extVars, netVars, paramVars, kubeVars>>

NextScript ==
    \/ CallGetBase64CustomScript
    \/ CallGetBase64CustomScriptFromStr
    \/ CallGetSingleLineForTemplate

SpecScript == InitScript /\ [][NextScript]_vars

(***************************************************************************)
(* Claims about the extension resolver, checked under SpecExt.             *)
(***************************************************************************)
SupportedOrchestratorsFile == "supported-orchestrators.json"
TemplateLinkFile == "template-link.json"

\* The request got no body: a transport error, a status other than 200, or a
\* failed read.
FetchFailed(r) ==
    r.response.getErr \/ r.response.StatusCode # 200 \/ r.response.readErr

\* The body of supported-orchestrators.json does not decode as a list naming
\* the current orchestrator.
ValidationFailed(r) ==
    /\ r.file = SupportedOrchestratorsFile
    /\ ~FetchFailed(r)
    /\ \/ ~r.response.body.decodes
       \/ \A k \in 1..Len(r.response.body.list) :
              r.response.body.list[k] # properties.OrchestratorProfile.OrchestratorType

RequestFailed(r) == FetchFailed(r) \/ ValidationFailed(r)

SomeRequestFailed == \E i \in 1..Len(requests) : RequestFailed(requests[i])

Returned == pc = "done"

\* C1: when the fetch or the orchestrator validation fails for any opted-in
\* pair, getLinkedTemplatesForExtensions returns the empty text, whatever had
\* been accumulated before.
C1_NoPartialOutput == (Returned /\ SomeRequestFailed) => ret = ""

\* A failure after a fragment had been accumulated, answered by the empty text.
C1_Witness ==
    /\ Returned /\ SomeRequestFailed
    /\ Len(fragments) >= 1
    /\ Contains(result, fragments[1].text) /\ Len(result) > 1
    /\ ret = ""

\* The pool a pair names opted for the extension it names.
PairOptedIn(pair) ==
    LET exts == IF pair[2] = 0 THEN properties.MasterProfile.Extensions
                ELSE properties.AgentPoolProfiles[pair[2]].Extensions
    IN  \E k \in 1..Len(exts) : exts[k].Name = properties.ExtensionProfiles[pair[1]].Name

\* C2: for each opted-in pair supported-orchestrators.json is requested first
\* and template-link.json only after that fetch returned 200, decoded and
\* named the current orchestrator; each file is requested at most once per
\* pair, and no request follows a failed fetch or validation.
C2_FetchSequence ==
    \A i \in 1..Len(requests) :
        LET r == requests[i]
        IN  /\ PairOptedIn(r.pair)
            /\ r.file \in {SupportedOrchestratorsFile, TemplateLinkFile}
            /\ r.file = TemplateLinkFile =>
                 /\ i > 1
                 /\ requests[i - 1].pair = r.pair
                 /\ requests[i - 1].file = SupportedOrchestratorsFile
                 /\ ~RequestFailed(requests[i - 1])
            /\ r.file = SupportedOrchestratorsFile =>
                 \A j \in 1..(i - 1) : requests[j].pair # r.pair
            /\ \A j \in 1..Len(requests) :
                 (j # i /\ requests[j].pair = r.pair) => requests[j].file # r.file
            /\ RequestFailed(r) => (i = Len(requests) /\ Returned)

\* Two pairs resolved with both fetches each, and then a pair whose
\* supported-orchestrators.json does not name the orchestrator ends the call.
C2_Witness ==
    /\ Returned
    /\ Len(requests) = 5
    /\ ValidationFailed(requests[5])
    /\ requests[5].response.body.decodes
    /\ requests[4].file = TemplateLinkFile

PlaceholderTokens ==
    {"EXTENSION_TARGET_VM_TYPE", "EXTENSION_PARAMETERS_REPLACE", "EXTENSION_URL_REPLACE",
     "EXTENSION_TARGET_VM_NAME_PREFIX", "EXTENSION_LOOP_COUNT", "EXTENSION_LOOP_OFFSET"}

UsesPlaceholders(text) == \E t \in PlaceholderTokens : Contains(text, t)

\* The opt-in mode the pool of a pair declared for the extension.
DeclaredMode(pair) ==
    LET exts == IF pair[2] = 0 THEN properties.MasterProfile.Extensions
                ELSE properties.AgentPoolProfiles[pair[2]].Extensions
        k == CHOOSE i \in 1..Len(exts) :
                 /\ exts[i].Name = properties.ExtensionProfiles[pair[1]].Name
                 /\ \A j \in 1..(i - 1) :
                        exts[j].Name # properties.ExtensionProfiles[pair[1]].Name
    IN  exts[k].SingleOrAll

SingleMode(pair) == DeclaredMode(pair) \in {"single", "Single", "SINGLE"}

\* C3, as the claim states it: every fragment resolved from a fetched template
\* that uses the placeholders, in single mode and in all mode, is non-empty
\* and holds none of the six EXTENSION_* placeholder tokens.
C3_NoResidualTokens_AsClaimed ==
    \A i \in 1..Len(fragments) :
        UsesPlaceholders(fragments[i].template) =>
            /\ fragments[i].text # ""
            /\ ~UsesPlaceholders(fragments[i].text)

\* The opted-in pairs, as a set.
OptedInSet ==
    { pair \in (1..Len(properties.ExtensionProfiles))
                 \X (0..Len(properties.AgentPoolProfiles)) : PairOptedIn(pair) }

\* Declared order: extension profiles in order, and within one extension the
\* master (pool 0) before the agent pools in their order.
Precedes(a, b) == a[1] < b[1] \/ (a[1] = b[1] /\ a[2] < b[2])

RECURSIVE JoinFragments(_)
JoinFragments(fs) ==
    IF fs = <<>> THEN "" ELSE "," \o Head(fs).text \o JoinFragments(Tail(fs))

\* C4: when every fetch succeeds the returned text is, in declared order, one
\* fragment per opted-in pair, each preceded by exactly one comma, and nothing
\* for the pools that did not opt in.
C4_ConcatenationOrder ==
    (Returned /\ ~SomeRequestFailed) =>
        /\ { fragments[i].pair : i \in 1..Len(fragments) } = OptedInSet
        /\ Len(fragments) = Cardinality(OptedInSet)
        /\ \A i, j \in 1..Len(fragments) :
               i < j => Precedes(fragments[i].pair, fragments[j].pair)
        /\ ret = JoinFragments(fragments)

\* Two extensions resolved for the master and for two agent pools, with one
\* pool that did not opt for one of the extensions.
C4_Witness ==
    /\ Returned /\ ~SomeRequestFailed
    /\ Len(properties.ExtensionProfiles) = 2
    /\ Len(properties.AgentPoolProfiles) = 2
    /\ Len(fragments) = 5
    /\ fragments[1].pair[2] = 0 /\ fragments[2].pair[2] = 1
    /\ fragments[3].pair[1] = 1 /\ fragments[3].pair[2] = 2
    /\ fragments[4].pair[1] = 2 /\ fragments[4].pair[2] = 0
    /\ fragments[5].pair[1] = 2
    /\ ret # ""

(***************************************************************************)
(* Claims about the network topology generator, checked under SpecNet.     *)
(***************************************************************************)
\* Where t occurs in s.
Positions(s, t) == { i \in 1..Len(s) : HasPrefixAt(s, i, t) }

\* The n-th place, from the left, where t occurs in s.
NthPosition(s, t, n) ==
    CHOOSE i \in Positions(s, t) :
        Cardinality({ j \in Positions(s, t) : j < i }) = n - 1

\* The n-th occurrence of t in s is followed at once by next.
NthFollowedBy(s, t, n, next) == HasPrefixAt(s, NthPosition(s, t, n) + Len(t), next)

\* The entry of the address-prefix list that names a pool's subnet variable.
SubnetEntry(name) == "\"[variables('" \o name \o "Subnet')]\""

\* C5: the address-prefix list holds the master subnet once and first, and
\* then each distinct agent-pool subnet exactly once, however many pools
\* share it.
C5_AddressPrefixesDistinct_AsClaimed ==
    netOut.fn = "getVNETAddressPrefixes" =>
        LET out == netOut.value
            master == netIn.properties.MasterProfile
            pools == netIn.properties.AgentPoolProfiles
            \* the entries of the list that carry subnet v
            entries(v) == { <<i, at>> \in (1..Len(pools)) \X (1..Len(out)) :
                              /\ pools[i].Subnet = v
                              /\ HasPrefixAt(out, at, SubnetEntry(pools[i].Name)) }
        IN  /\ HasPrefixAt(out, 1, SubnetEntry("master"))
            /\ Cardinality(Positions(out, SubnetEntry("master"))) = 1
            /\ entries(master.Subnet) = {}
            /\ \A i \in 1..Len(pools) :
                   pools[i].Subnet # master.Subnet =>
                       Cardinality(entries(pools[i].Subnet)) = 1

\* C6: getSecurityRules writes one rule per port, in list order, and the rule
\* of the port at zero-based index i has priority 200 + i.
C6_SecurityRulePriorities ==
    netOut.fn = "getSecurityRules" =>
        LET out == netOut.value
            ports == netIn.ports
        IN  /\ Cardinality(Positions(out, "\"name\": \"Allow_")) = Len(ports)
            /\ Cardinality(Positions(out, "\"priority\": ")) = Len(ports)
            /\ \A k \in 1..Len(ports) :
                   /\ NthFollowedBy(out, "\"name\": \"Allow_", k, Itoa(ports[k]) \o "\"")
                   /\ NthFollowedBy(out, "\"priority\": ", k, Itoa(200 + (k - 1)) \o ",")

\* The rules of three ports that are not in increasing order.
C6_Witness ==
    /\ netOut.fn = "getSecurityRules"
    /\ netIn.ports = <<8080, 22, 443>>
    /\ Contains(netOut.value, "\"priority\": 200,")
    /\ Contains(netOut.value, "\"priority\": 202,")

RECURSIVE SumOfCounts(_, _)
SumOfCounts(pools, S) ==
    IF S = {} THEN 0
    ELSE LET i == CHOOSE x \in S : TRUE
         IN  pools[i].Count + SumOfCounts(pools, S \ {i})

WindowsPools(pools) == { i \in 1..Len(pools) : pools[i].OSType = "Windows" }
OtherPools(pools) == { i \in 1..Len(pools) : pools[i].OSType # "Windows" }

\* The same cluster with its agent pools declared in the order perm gives.
Reordered(props, perm) ==
    [props EXCEPT !.AgentPoolProfiles =
        [i \in 1..Len(props.AgentPoolProfiles) |-> props.AgentPoolProfiles[perm[i]]]]

Orderings(n) == { f \in [1..n -> 1..n] : \A i, j \in 1..n : i # j => f[i] # f[j] }

\* C7: getKubernetesSubnets writes one /24 fragment per Windows agent VM and
\* none for the other pools; the third octet starts at 1 + master count + the
\* count of all non-Windows agents, whatever the order of the pools, and grows
\* by one per VM, so every index is above the number of non-Windows nodes.
C7_WindowsPodSubnets ==
    netOut.fn = "getKubernetesSubnets" =>
        LET out == netOut.value
            props == netIn.properties
            pools == props.AgentPoolProfiles
            nonWindows == props.MasterProfile.Count + SumOfCounts(pools, OtherPools(pools))
            windows == SumOfCounts(pools, WindowsPools(pools))
        IN  /\ Cardinality(Positions(out, "\"name\": \"podCIDR")) = windows
            /\ Cardinality(Positions(out, "\"addressPrefix\": \"")) = windows
            /\ \A k \in 1..windows :
                   /\ NthFollowedBy(out, "\"name\": \"podCIDR", k,
                                    Itoa(1 + nonWindows + (k - 1)) \o "\"")
                   /\ NthFollowedBy(out, "\"addressPrefix\": \"", k,
                                    "10.244." \o Itoa(1 + nonWindows + (k - 1)) \o ".0/24\"")
                   /\ 1 + nonWindows + (k - 1) > nonWindows
            /\ \A perm \in Orderings(Len(pools)) :
                   getKubernetesPodStartIndex(Reordered(props, perm)) = 1 + nonWindows

\* One master, a Windows pool declared before a pool of two Linux agents: the
\* first pod subnet is 10.244.4.0/24.
C7_Witness ==
    /\ netOut.fn = "getKubernetesSubnets"
    /\ netIn.properties.MasterProfile.Count = 1
    /\ Len(netIn.properties.AgentPoolProfiles) = 3
    /\ netIn.properties.AgentPoolProfiles[1].OSType = "Windows"
    /\ netIn.properties.AgentPoolProfiles[1].Count = 2
    /\ netIn.properties.AgentPoolProfiles[2].OSType = "Linux"
    /\ netIn.properties.AgentPoolProfiles[2].Count = 2
    /\ netIn.properties.AgentPoolProfiles[3].OSType = "Windows"
    /\ netIn.properties.AgentPoolProfiles[3].Count = 1
    /\ NthFollowedBy(netOut.value, "\"addressPrefix\": \"", 1, "10.244.4.0/24\"")
    /\ NthFollowedBy(netOut.value, "\"addressPrefix\": \"", 3, "10.244.6.0/24\"")

(***************************************************************************)
(* Claims about the parameter and secret encoder.                          *)
(***************************************************************************)
Base64Index(c) ==
    (CHOOSE i \in 1..Len(Base64Alphabet) : SubSeq(Base64Alphabet, i, i) = c) - 1

Chr(n) ==
    CASE n = 9 -> "\t"
      [] n = 10 -> "\n"
      [] n = 12 -> "\f"
      [] n = 13 -> "\r"
      [] n >= 32 /\ n <= 95 -> SubSeq(PrintableLow, n - 31, n - 31)
      [] OTHER -> SubSeq(PrintableHigh, n - 96, n - 96)

\* Standard base64 decoding of enc from position i on.
RECURSIVE DecodeFrom(_, _)
DecodeFrom(enc, i) ==
    IF i + 3 > Len(enc) THEN ""
    ELSE LET i1 == Base64Index(SubSeq(enc, i, i))
             i2 == Base64Index(SubSeq(enc, i + 1, i + 1))
             c3 == SubSeq(enc, i + 2, i + 2)
             c4 == SubSeq(enc, i + 3, i + 3)
             byte1 == Chr(i1 * 4 + i2 \div 16)
         IN  IF c3 = "=" THEN byte1
             ELSE IF c4 = "="
                  THEN byte1 \o Chr((i2 % 16) * 16 + Base64Index(c3) \div 4)
             ELSE byte1 \o Chr((i2 % 16) * 16 + Base64Index(c3) \div 4)
                    \o Chr((Base64Index(c3) % 4) * 64 + Base64Index(c4))
                    \o DecodeFrom(enc, i + 4)

DecodeString(enc) == DecodeFrom(enc, 1)

\* vault is /subscriptions/S/resourceGroups/G/providers/Microsoft.KeyVault/vaults/V
\* for some S, G and V that are not empty and hold no white space.
IsVaultID(vault) ==
    LET groups == Positions(vault, "/resourceGroups/")
        providers == Positions(vault, "/providers/Microsoft.KeyVault/vaults/")
    IN  /\ HasPrefixAt(vault, 1, "/subscriptions/")
        /\ \E i \in groups, j \in providers :
            /\ NonSpaces(SubSeq(vault, Len("/subscriptions/") + 1, i - 1))
            /\ NonSpaces(SubSeq(vault, i + Len("/resourceGroups/"), j - 1))
            /\ NonSpaces(SubSeq(vault, j + Len("/providers/Microsoft.KeyVault/vaults/"),
                                Len(vault)))

\* str is vault, "/secrets/", name and, when version is not empty, "/" and version.
SecretPath(str, vault, name, version) ==
    /\ str = vault \o "/secrets/" \o name
               \o (IF version = "" THEN "" ELSE "/" \o version)
    /\ IsVaultID(vault)
    /\ NameChars(name)
    /\ version = "" \/ NonSpaces(version)

\* str has the form of a key vault secret path, under some way of reading it.
IsSecretPath(str) ==
    \E q \in Positions(str, "/secrets/") :
        LET r == NameEnd(str, q + Len("/secrets/"))
        IN  /\ r = Len(str) + 1 \/ r < Len(str)
            /\ SecretPath(str, SubSeq(str, 1, q - 1),
                          SubSeq(str, q + Len("/secrets/"), r - 1),
                          SubSeq(str, r + 1, Len(str)))

IsReference(entry) == DOMAIN entry = {"reference"}
IsValue(entry) == DOMAIN entry = {"value"}

\* C8, as the claim states it: after addSecret(m, k, v, encode), a value that is
\* not a string is stored unchanged as a literal value; a string of the form
\* /subscriptions/S/resourceGroups/G/providers/Microsoft.KeyVault/vaults/V/secrets/NAME[/VERSION]
\* is stored as a reference whose vault id is the part before /secrets/, whose
\* secret name is NAME and whose version is VERSION or empty; and any other
\* string is stored as a literal value, which base64-decodes to the string when
\* encode is true and is the string itself when encode is false.
C8_AddSecretClassifies_AsClaimed ==
    lastCall.fn = "addSecret" =>
        LET entry == m[lastCall.k]
            v == lastCall.v
        IN  IF v.type # "string" THEN entry = [value |-> v]
            ELSE IF IsSecretPath(v.str)
                 THEN /\ IsReference(entry)
                      /\ SecretPath(v.str, entry.reference.KeyVault.ID,
                                    entry.reference.SecretName,
                                    entry.reference.SecretVersion)
            ELSE /\ IsValue(entry)
                 /\ entry.value.type = "string"
                 /\ IF lastCall.encode
                    THEN DecodeString(entry.value.str) = v.str
                    ELSE entry.value.str = v.str

\* C9: in every state every entry of the map has exactly one of value and
\* reference set, and every call on a key k leaves the map with the keys it had
\* and k, every entry but the one of k being what it was.
C9_EntriesExactlyOne ==
    /\ [](\A k \in DOMAIN m : IsValue(m[k]) \/ IsReference(m[k]))
    /\ [][ /\ DOMAIN m' = (DOMAIN m) \cup {lastCall'.k}
           /\ \A k \in (DOMAIN m) \ {lastCall'.k} : m'[k] = m[k] ]_vars

C9_Witness ==
    /\ lastCall.fn = "addKeyvaultReference"
    /\ IsReference(m[lastCall.k])
    /\ \E k \in DOMAIN m : k # lastCall.k /\ IsValue(m[k]) /\ m[k].value.type = "string"

(***************************************************************************)
(* Claims about the KubeConfig generator.                                  *)
(***************************************************************************)
\* The cluster entry of the document names addr as its server.
ServerIs(doc, addr) == Contains(doc, "\"server\":\"https://" \o addr \o "\"}")

PrivateEnabled(p) ==
    /\ p.OrchestratorProfile # Nil
    /\ p.OrchestratorProfile.KubernetesConfig # Nil
    /\ p.OrchestratorProfile.KubernetesConfig.PrivateCluster # Nil
    /\ p.OrchestratorProfile.KubernetesConfig.PrivateCluster.Enabled = "true"

\* The first three octets of ip, and its last octet plus the offset as a byte.
LoadBalancerAddress(ip, build) ==
    LET o == ParseIPTo4(ip, build)
    IN  Itoa(o[1]) \o "." \o Itoa(o[2]) \o "." \o Itoa(o[3]) \o "."
          \o Itoa((o[4] + DefaultInternalLbStaticIPOffset) % 256)

PublicName(p, location) ==
    FormatAzureProdFQDNByLocation(p.MasterProfile.DNSPrefix, location)

\* C10: a document that GenerateKubeConfig returns names as its server the
\* internal load-balancer address (the first master static IP with the offset
\* added to its last octet) when the private cluster is enabled and there is
\* more than one master; the master's static IP as given, and no DNS name, when
\* the private cluster is enabled and there is one master; and the public DNS
\* name of DNS prefix and location in every other case, an absent orchestrator
\* profile, Kubernetes configuration or private-cluster configuration and a
\* private cluster that is not enabled included.
C10_ServerAddressByCase ==
    (kubeOut.called /\ kubeOut.err = "") =>
        LET p == kubeIn.properties
            doc == kubeOut.kubeconfig
        IN  IF PrivateEnabled(p) /\ p.MasterProfile.Count > 1
            THEN /\ ServerIs(doc, LoadBalancerAddress(p.MasterProfile.FirstConsecutiveStaticIP,
                                                    kubeIn.build))
                 /\ ~Contains(doc, PublicName(p, kubeIn.location))
            ELSE IF PrivateEnabled(p) /\ p.MasterProfile.Count = 1
            THEN /\ ServerIs(doc, p.MasterProfile.FirstConsecutiveStaticIP)
                 /\ ~Contains(doc, PublicName(p, kubeIn.location))
            ELSE ServerIs(doc, PublicName(p, kubeIn.location))

C10_Witness ==
    /\ kubeOut.called /\ kubeOut.err = ""
    /\ PrivateEnabled(kubeIn.properties)
    /\ kubeIn.properties.MasterProfile.Count = 1
    /\ kubeIn.properties.MasterProfile.FirstConsecutiveStaticIP = "10.0.0.4"
    /\ ServerIs(kubeOut.kubeconfig, "10.0.0.4")

\* The text of the document that follows the "user": key of its users entry.
UserBlock(doc) ==
    LET at == Positions(doc, "\"user\":{")
        last == CHOOSE i \in at : \A x \in at : x <= i
    IN  IF at = {} THEN "" ELSE SubSeq(doc, last + Len("\"user\":"), Len(doc))

\* C11: the auth-info block of a returned document has one of two shapes.  With
\* no AAD profile it holds client-certificate-data and client-key-data (the
\* base64 text of the certificate and of the key) and no auth-provider key;
\* with an AAD profile it holds an auth-provider block with the environment,
\* the tenant, the server app id and the client app id, and no client
\* certificate or key data, the tenant being the profile's tenant id, or
\* "common" when that is empty.
C11_AuthInfoShape ==
    (kubeOut.called /\ kubeOut.err = "") =>
        LET p == kubeIn.properties
            block == UserBlock(kubeOut.kubeconfig)
        IN  IF p.AADProfile = Nil
            THEN /\ Contains(block, "\"client-certificate-data\":\""
                        \o EncodeToString(p.CertificateProfile.KubeConfigCertificate) \o "\"")
                 /\ Contains(block, "\"client-key-data\":\""
                        \o EncodeToString(p.CertificateProfile.KubeConfigPrivateKey) \o "\"")
                 /\ ~Contains(block, "auth-provider")
            ELSE /\ Contains(block, "{\"auth-provider\":{")
                 /\ Contains(block, "\"environment\":\"" \o GetCloudTargetEnv(kubeIn.location) \o "\"")
                 /\ Contains(block, "\"tenant-id\":\""
                        \o (IF p.AADProfile.TenantID = "" THEN "common"
                            ELSE p.AADProfile.TenantID) \o "\"")
                 /\ Contains(block, "\"apiserver-id\":\"" \o p.AADProfile.ServerAppID \o "\"")
                 /\ Contains(block, "\"client-id\":\"" \o p.AADProfile.ClientAppID \o "\"")
                 /\ ~Contains(block, "client-certificate-data")
                 /\ ~Contains(block, "client-key-data")

C11_Witness ==
    /\ kubeOut.called /\ kubeOut.err = ""
    /\ kubeIn.properties.AADProfile # Nil
    /\ kubeIn.properties.AADProfile.TenantID = ""
    /\ Contains(UserBlock(kubeOut.kubeconfig), "\"tenant-id\":\"common\"")

\* text is a dotted quad: four decimal numbers from 0 to 255, written without
\* leading zeros and separated by three dots.
IsOctetText(text) == \E n \in 0..255 : Itoa(n) = text

IsIPv4Text(text) ==
    LET dots == { i \in 1..Len(text) : SubSeq(text, i, i) = "." }
    IN  /\ Cardinality(dots) = 3
        /\ \E d1, d2, d3 \in dots :
            /\ d1 < d2 /\ d2 < d3
            /\ IsOctetText(SubSeq(text, 1, d1 - 1))
            /\ IsOctetText(SubSeq(text, d1 + 1, d2 - 1))
            /\ IsOctetText(SubSeq(text, d2 + 1, d3 - 1))
            /\ IsOctetText(SubSeq(text, d3 + 1, Len(text)))

\* text is a number from 0 to 255 written with any number of leading zeros.
IsPaddedOctetText(text) ==
    /\ text # ""
    /\ \A i \in 1..Len(text) : IsDigit(SubSeq(text, i, i))
    /\ \E z \in 0..(Len(text) - 1) :
        /\ \A i \in 1..z : SubSeq(text, i, i) = "0"
        /\ IsOctetText(SubSeq(text, z + 1, Len(text)))

\* text is a dotted quad whose numbers may have leading zeros.
IsPaddedIPv4Text(text) ==
    LET dots == { i \in 1..Len(text) : SubSeq(text, i, i) = "." }
    IN  /\ Cardinality(dots) = 3
        /\ \E d1, d2, d3 \in dots :
            /\ d1 < d2 /\ d2 < d3
            /\ IsPaddedOctetText(SubSeq(text, 1, d1 - 1))
            /\ IsPaddedOctetText(SubSeq(text, d1 + 1, d2 - 1))
            /\ IsPaddedOctetText(SubSeq(text, d2 + 1, d3 - 1))
            /\ IsPaddedOctetText(SubSeq(text, d3 + 1, Len(text)))

\* The IPv6 text of the IPv4-mapped address of a dotted quad.
MappedPrefix == "::ffff:"

IsMappedIPv4Text(text) ==
    /\ Len(text) > Len(MappedPrefix)
    /\ SubSeq(text, 1, Len(MappedPrefix)) = MappedPrefix
    /\ IsIPv4Text(SubSeq(text, Len(MappedPrefix) + 1, Len(text)))

\* The private cluster is enabled, there is more than one master, and the call
\* gets as far as the first static IP.
ReadsStaticIP ==
    /\ kubeOut.called
    /\ kubeIn.properties # Nil
    /\ kubeIn.properties.CertificateProfile # Nil
    /\ kubeIn.assetFound
    /\ PrivateEnabled(kubeIn.properties)
    /\ kubeIn.properties.MasterProfile.Count > 1

\* What the claim says of the calls that do not read the first static IP for
\* the load balancer: the errors, their order, and the single-master case.
FailuresOutsideStaticIP ==
    kubeOut.called =>
        LET p == kubeIn.properties
        IN  /\ kubeOut.err # "" => kubeOut.kubeconfig = ""
            /\ kubeOut.err = "" => kubeOut.kubeconfig # ""
            /\ IF p = Nil THEN kubeOut.err = "Properties nil in GenerateKubeConfig"
               ELSE IF p.CertificateProfile = Nil
               THEN kubeOut.err = "CertificateProfile property may not be nil in GenerateKubeConfig"
               ELSE IF ~kubeIn.assetFound THEN kubeOut.err # ""
               ELSE IF PrivateEnabled(p) /\ p.MasterProfile.Count > 1 THEN TRUE
               ELSE /\ kubeOut.err = ""
                    /\ PrivateEnabled(p) =>
                         ServerIs(kubeOut.kubeconfig, p.MasterProfile.FirstConsecutiveStaticIP)

\* C12, as the claim states it: a call of GenerateKubeConfig that fails returns
\* the empty document; it fails with the properties error when the properties
\* are nil, with the certificate-profile error when the properties are there
\* and the certificate profile is nil, and with an error when the private
\* cluster is enabled, there is more than one master and the first static IP
\* is not an IPv4 address (a dotted quad, its numbers read with or without
\* leading zeros); with one master the static IP is substituted unchecked.
C12_InvalidIPv4Fails_AsClaimed ==
    /\ FailuresOutsideStaticIP
    /\ (/\ ReadsStaticIP
        /\ ~IsPaddedIPv4Text(kubeIn.properties.MasterProfile.FirstConsecutiveStaticIP))
           => kubeOut.err # ""

\* C12, corrected: a call of GenerateKubeConfig that fails returns the empty
\* document; the properties error comes first, then the certificate-profile
\* error; with the private cluster enabled and one master the static IP is
\* substituted unchecked.  With the private cluster enabled and more than one
\* master the call fails exactly when net.ParseIP(first static IP).To4() is
\* nil.  It is not nil for a dotted quad without leading zeros, nor for the
\* IPv6 text "::ffff:" followed by such a quad, which is no IPv4 text, and the
\* call then succeeds and names the load-balancer address of the quad; it is
\* nil for a text with no dot and no colon and for a text whose first
\* separator is a dot and that is no dotted quad; and a dotted quad with
\* leading zeros fails or succeeds as the Go toolchain of the build rejects or
\* accepts leading zeros.
C12_FailuresReturnNoDocument ==
    /\ FailuresOutsideStaticIP
    /\ ReadsStaticIP =>
         LET ip == kubeIn.properties.MasterProfile.FirstConsecutiveStaticIP
             colons == { i \in 1..Len(ip) : SubSeq(ip, i, i) = ":" }
             dots == { i \in 1..Len(ip) : SubSeq(ip, i, i) = "." }
             dotFirst == dots # {} /\ \A c \in colons : \E d \in dots : d < c
         IN  /\ kubeOut.err # "" <=> ParseIPTo4(ip, kubeIn.build) = <<>>
             /\ IsIPv4Text(ip) =>
                  /\ kubeOut.err = ""
                  /\ ServerIs(kubeOut.kubeconfig, LoadBalancerAddress(ip, kubeIn.build))
             /\ IsMappedIPv4Text(ip) =>
                  /\ kubeOut.err = ""
                  /\ ServerIs(kubeOut.kubeconfig,
                              LoadBalancerAddress(SubSeq(ip, Len(MappedPrefix) + 1, Len(ip)),
                                                  kubeIn.build))
             /\ (colons = {} /\ dots = {}) => kubeOut.err # ""
             /\ (dotFirst /\ ~IsPaddedIPv4Text(ip)) => kubeOut.err # ""
             /\ (IsPaddedIPv4Text(ip) /\ ~IsIPv4Text(ip)) =>
                  (kubeOut.err # "" <=> kubeIn.build.leadingZeros = "rejected")

\* An IPv6 text of an IPv4-mapped address is accepted: the call succeeds and
\* names the load-balancer address 10.0.0.14.
C12_Witness ==
    /\ ReadsStaticIP
    /\ kubeIn.properties.MasterProfile.Count = 3
    /\ kubeIn.properties.MasterProfile.FirstConsecutiveStaticIP = "::ffff:10.0.0.4"
    /\ kubeOut.err = ""
    /\ ServerIs(kubeOut.kubeconfig, "10.0.0.14")

\* The address that the cluster entry of the document names as its server.
ServerAddress(doc) ==
    LET at == Positions(doc, "\"server\":\"https://")
        start == (CHOOSE i \in at : TRUE) + Len("\"server\":\"https://")
        quotes == { q \in start..Len(doc) : SubSeq(doc, q, q) = "\"" }
        end == CHOOSE q \in quotes : \A x \in quotes : q <= x
    IN  SubSeq(doc, start, end - 1)

\* The number that the four octets of an address stand for.
AddressNumber(o) == ((o[1] * 256 + o[2]) * 256 + o[3]) * 256 + o[4]

\* C17, as the claim states it: for an enabled private cluster with more than
\* one master, the load-balancer address in the returned document is, as a
\* number, the first master static IP plus DefaultInternalLbStaticIPOffset.
C17_LoadBalancerAboveMaster_AsClaimed ==
    (/\ kubeOut.called /\ kubeOut.err = ""
     /\ PrivateEnabled(kubeIn.properties)
     /\ kubeIn.properties.MasterProfile.Count > 1) =>
        AddressNumber(ParseIPTo4(ServerAddress(kubeOut.kubeconfig), kubeIn.build))
            = AddressNumber(ParseIPTo4(kubeIn.properties.MasterProfile.FirstConsecutiveStaticIP,
                                       kubeIn.build))
                + DefaultInternalLbStaticIPOffset

(***************************************************************************)
(* Claims about the loop parameters and the target type of the fragments,  *)
(* checked under SpecExt.                                                  *)
(***************************************************************************)
\* The name that prefixes the variables of the pool of a pair.
PoolVariablePrefix(pair) ==
    IF pair[2] = 0 THEN "master" ELSE properties.AgentPoolProfiles[pair[2]].Name

\* The pool of a pair keeps an offset: the master, or an availability-set pool.
KeepsOffset(pair) ==
    pair[2] = 0 \/ properties.AgentPoolProfiles[pair[2]].AvailabilityProfile = "AvailabilitySet"

\* The loop count in all mode: count minus offset where an offset is kept, the
\* plain count otherwise.
CountExpression(pair) ==
    IF KeepsOffset(pair)
    THEN "[sub(variables('" \o PoolVariablePrefix(pair) \o "Count'), variables('"
           \o PoolVariablePrefix(pair) \o "Offset'))]"
    ELSE "[variables('" \o PoolVariablePrefix(pair) \o "Count')]"

OffsetExpression(pair) ==
    IF KeepsOffset(pair) THEN "variables('" \o PoolVariablePrefix(pair) \o "Offset')"
    ELSE ""

\* The loop count of fragment f, where its template has the placeholder in
\* quotes after "count": and where it has it bare after '-', ; and its loop
\* offset, where the template has the placeholder in copyIndex().
LoopParametersAre(f, quotedCount, bareCount, offset) ==
    /\ Contains(f.template, "\"count\":\"EXTENSION_LOOP_COUNT\"}") =>
           Contains(f.text, "\"count\":" \o quotedCount \o "}")
    /\ Contains(f.template, "'-',EXTENSION_LOOP_COUNT)]") =>
           Contains(f.text, "'-'," \o bareCount \o ")]")
    /\ Contains(f.template, "copyIndex(EXTENSION_LOOP_OFFSET)") =>
           Contains(f.text, "copyIndex(" \o offset \o ")")

\* C14, as the claim states it: in single mode the loop count of a fragment is
\* the bare integer 1, put in place of the placeholder and the double quotes
\* around it (a placeholder without them stays); in all mode it is an
\* expression put in place of the placeholder alone, count minus offset for the
\* master and for an availability-set pool and the plain count for a scale-set
\* pool; the loop offset is the offset variable of the master or of the
\* availability-set pool, and empty for a scale-set pool, in both modes.
C14_LoopCountAndOffset_AsClaimed ==
    \A i \in 1..Len(fragments) :
        LET f == fragments[i]
        IN  IF SingleMode(f.pair)
            THEN LoopParametersAre(f, "1", "EXTENSION_LOOP_COUNT", OffsetExpression(f.pair))
            ELSE LoopParametersAre(f, "\"" \o CountExpression(f.pair) \o "\"",
                                   CountExpression(f.pair), OffsetExpression(f.pair))

\* The target type of fragment f, where its template has the placeholder after
\* '- and where it has it as the value of "type".
TargetTypeIs(f, type) ==
    /\ Contains(f.template, "'-EXTENSION_TARGET_VM_TYPE')]") =>
           Contains(f.text, "'-" \o type \o "')]")
    /\ Contains(f.template, "\"type\":\"EXTENSION_TARGET_VM_TYPE\"") =>
           Contains(f.text, "\"type\":\"" \o type \o "\"")

\* C16, as the claim states it: every fragment produced for the master has
\* EXTENSION_TARGET_VM_TYPE replaced by master and every fragment produced for
\* an agent pool has it replaced by agent, whatever the name of the pool.
C16_TargetTypeByPool_AsClaimed ==
    \A i \in 1..Len(fragments) :
        TargetTypeIs(fragments[i], IF fragments[i].pair[2] = 0 THEN "master" ELSE "agent")

(***************************************************************************)
(* Claims about the custom-script packager and the single-line escaper,    *)
(* checked under SpecScript.                                               *)
(***************************************************************************)
\* Standard base64 decoding, to bytes, of enc from position i on.
RECURSIVE DecodeBytesFrom(_, _)
DecodeBytesFrom(enc, i) ==
    IF i + 3 > Len(enc) THEN <<>>
    ELSE LET i1 == Base64Index(SubSeq(enc, i, i))
             i2 == Base64Index(SubSeq(enc, i + 1, i + 1))
             c3 == SubSeq(enc, i + 2, i + 2)
             c4 == SubSeq(enc, i + 3, i + 3)
             byte1 == i1 * 4 + i2 \div 16
         IN  IF c3 = "=" THEN <<byte1>>
             ELSE IF c4 = "="
                  THEN <<byte1, (i2 % 16) * 16 + Base64Index(c3) \div 4>>
             ELSE <<byte1, (i2 % 16) * 16 + Base64Index(c3) \div 4,
                    (Base64Index(c3) % 4) * 64 + Base64Index(c4)>>
                    \o DecodeBytesFrom(enc, i + 4)

\* The bits of a sequence of bytes, the lowest bit of each byte first.
UnpackBits(bytes) ==
    [i \in 1..(8 * Len(bytes)) |-> (bytes[(i + 7) \div 8] \div (2 ^ ((i - 1) % 8))) % 2]

\* The number in the n bits from position p on, the highest bit first, and the
\* lowest bit first.
RECURSIVE HighFirstValue(_, _, _)
HighFirstValue(bits, p, n) ==
    IF n = 0 THEN 0 ELSE 2 * HighFirstValue(bits, p, n - 1) + BitAt(bits, p + n - 1)

RECURSIVE LowFirstValue(_, _, _)
LowFirstValue(bits, p, n) ==
    IF n = 0 THEN 0 ELSE BitAt(bits, p) + 2 * LowFirstValue(bits, p + 1, n - 1)

InflateFailed == [ok |-> FALSE, bytes |-> <<>>]

\* Inflation of a deflate stream of stored blocks and of blocks of literals in
\* the fixed Huffman code: the block that starts at position p, out being what
\* was inflated before it.
RECURSIVE InflateBlock(_, _, _)
RECURSIVE InflateFixed(_, _, _, _)
InflateFixed(bits, p, out, final) ==
    IF p + 6 > Len(bits) THEN InflateFailed
    ELSE IF HighFirstValue(bits, p, 7) = 0
    THEN IF final THEN [ok |-> TRUE, bytes |-> out] ELSE InflateBlock(bits, p + 7, out)
    ELSE IF HighFirstValue(bits, p, 8) >= 48 /\ HighFirstValue(bits, p, 8) <= 191
    THEN InflateFixed(bits, p + 8, Append(out, HighFirstValue(bits, p, 8) - 48), final)
    ELSE IF HighFirstValue(bits, p, 9) >= 400
    THEN InflateFixed(bits, p + 9, Append(out, HighFirstValue(bits, p, 9) - 256), final)
    ELSE InflateFailed

InflateBlock(bits, p, out) ==
    IF p + 2 > Len(bits) THEN InflateFailed
    ELSE LET final == bits[p] = 1
             type == LowFirstValue(bits, p + 1, 2)
             start == 8 * ((p + 2 + 7) \div 8) + 1
             len == LowFirstValue(bits, start, 16)
             data == [k \in 1..len |-> LowFirstValue(bits, start + 32 + 8 * (k - 1), 8)]
         IN  IF type = 1 THEN InflateFixed(bits, p + 3, out, final)
             ELSE IF type # 0 THEN InflateFailed
             ELSE IF \/ start + 31 + 8 * len > Len(bits)
                     \/ LowFirstValue(bits, start + 16, 16) # 65535 - len
             THEN InflateFailed
             ELSE IF final THEN [ok |-> TRUE, bytes |-> out \o data]
             ELSE InflateBlock(bits, start + 32 + 8 * len, out \o data)

\* gzip decompression of a member without optional header fields: the inflated
\* bytes, when the header, the checksum and the length are right.
Gunzip(bytes) ==
    IF Len(bytes) < 18 \/ SubSeq(bytes, 1, 4) # <<31, 139, 8, 0>> THEN InflateFailed
    ELSE LET inflated == InflateBlock(UnpackBits(SubSeq(bytes, 11, Len(bytes) - 8)), 1, <<>>)
             trailer == SubSeq(bytes, Len(bytes) - 7, Len(bytes))
         IN  IF /\ inflated.ok
                /\ SubSeq(trailer, 1, 4) = PackBits(ChecksumIEEE(inflated.bytes))
                /\ LowFirstValue(UnpackBits(SubSeq(trailer, 5, 8)), 1, 30) = Len(inflated.bytes)
             THEN inflated ELSE InflateFailed

\* The bytes that base64-decoding and then gzip-decompressing packaged gives.
Unpackaged(packaged) == Gunzip(DecodeBytesFrom(packaged, 1))

\* text from position i on with every \r\n turned into \n.
RECURSIVE NormalizedFrom(_, _)
NormalizedFrom(text, i) ==
    IF i > Len(text) THEN ""
    ELSE IF HasPrefixAt(text, i, "\r\n") THEN "\n" \o NormalizedFrom(text, i + 2)
    ELSE SubSeq(text, i, i) \o NormalizedFrom(text, i + 1)

\* C13: what getBase64CustomScript returns base64-decodes and gzip-decompresses
\* to the bytes of the script with every \r\n turned into \n, and what
\* getBase64CustomScriptFromStr returns to the bytes of its string as given.
\* getBase64CustomScript returns whenever the asset is there; when it is not,
\* the call panics and returns nothing.  Packaging is deterministic: a call
\* that follows, at a later time of the clock, a call of the same function on
\* the same bytes returns the same text as that call, byte for byte.
C13_PackagingInvertible ==
    /\ [](/\ scriptOut.fn = "getBase64CustomScript" =>
               IF scriptIn.asset.err = ""
               THEN /\ scriptOut.panic = ""
                    /\ Unpackaged(scriptOut.out)
                         = [ok |-> TRUE, bytes |-> Bytes(NormalizedFrom(scriptIn.asset.b, 1))]
               ELSE scriptOut.panic # "" /\ scriptOut.out = ""
          /\ scriptOut.fn = "getBase64CustomScriptFromStr" =>
               Unpackaged(scriptOut.out) = [ok |-> TRUE, bytes |-> Bytes(scriptIn.asset.b)])
    /\ [][(/\ scriptOut.fn \in {"getBase64CustomScript", "getBase64CustomScriptFromStr"}
           /\ scriptOut'.fn = scriptOut.fn
           /\ scriptIn'.asset = scriptIn.asset
           /\ scriptIn'.now > scriptIn.now)
              => scriptOut'.out = scriptOut.out]_vars

\* Two calls were made, at the times 1 and 2, on a script with a \r\n, and the
\* later one is a call of getBase64CustomScript that returned the package.
C13_Witness ==
    /\ scriptIn.asset.b = "a\r\n"
    /\ scriptIn.now = 3
    /\ scriptOut.fn = "getBase64CustomScript"
    /\ scriptOut.panic = ""
    /\ Unpackaged(scriptOut.out) = [ok |-> TRUE, bytes |-> <<97, 10>>]

\* The number of positions of text at which the character c stands.
CountOf(text, c) == Cardinality({ i \in 1..Len(text) : SubSeq(text, i, i) = c })

\* The number of backslashes that stand in a row right before position i.
RECURSIVE BackslashesBefore(_, _)
BackslashesBefore(text, i) ==
    IF i > 1 /\ SubSeq(text, i - 1, i - 1) = "\\" THEN 1 + BackslashesBefore(text, i - 1)
    ELSE 0

\* C15, as the claim states it: the text that getSingleLineForTemplate returns,
\* which is what escapeSingleLine makes of the expanded template, holds no raw
\* carriage return and no raw line feed, each of its double quotes has an
\* escaping backslash before it, and its backslashes are two for each
\* backslash of the input and one for each line feed and for each double
\* quote of the input.
C15_EscapedForJSON_AsClaimed ==
    (scriptOut.fn = "getSingleLineForTemplate" /\ scriptOut.err = "") =>
        /\ ~Contains(scriptOut.out, "\r")
        /\ ~Contains(scriptOut.out, "\n")
        /\ \A i \in 1..Len(scriptOut.out) :
               SubSeq(scriptOut.out, i, i) = "\"" =>
                   BackslashesBefore(scriptOut.out, i) % 2 = 1
        /\ CountOf(scriptOut.out, "\\")
             = 2 * CountOf(scriptIn.asset.b, "\\") + CountOf(scriptIn.asset.b, "\n")
                 + CountOf(scriptIn.asset.b, "\"")

====
